---- MODULE Spec2Model ----
(***************************************************************************)
(* Hybrid transcription decision engine of alexk136/whisper.               *)
(*                                                                         *)
(* Two controllers are installed under the name app.hybrid.controller in   *)
(* the repository: controller.py (local Whisper first, remote HTTP API as  *)
(* fallback) and controller_new.py (OpenAI first, local Whisper fallback,  *)
(* chunking of large files).  Both are modelled; cfg.controller says which *)
(* one a process runs.                                                     *)
(*                                                                         *)
(* Confidences, scores and similarities are floats in [0,1] in the code;   *)
(* here they are integers in hundredths (0.85 is 85).                      *)
(***************************************************************************)
EXTENDS Integers, Sequences, FiniteSets, TLC

VARIABLES cfg, phase, req, env, outcome, calls, environ, job

vars == <<cfg, phase, req, env, outcome, calls, environ, job>>

(***************************************************************************)
(* Bounds of the model.                                                    *)
(***************************************************************************)
MaxChunks == 2

(***************************************************************************)
(* Program constants.                                                      *)
(***************************************************************************)
None == -1

\* openai_whisper.MAX_FILE_SIZE and the ceiling of controller_new.py, in MiB
MAX_SINGLE_SHOT_MB == 25

MIN_CONFIDENCE == 85

MIN_SPEAKER_MATCH == 90

SEMANTIC_THRESHOLD == 75

VERIFICATION_THRESHOLD == 75

OPENAI_CONFIDENCE == 95

UNAUTHORIZED_CAP == 50

LOCAL_PRIMARY_FLOOR == 70

MINIMAL_TEXT == "Voice authentication required for full transcription"

(***************************************************************************)
(* Small helpers.                                                          *)
(***************************************************************************)
Min(a, b) == IF a < b THEN a ELSE b

RECURSIVE Join(_, _)
\* sep.join(ss) of Python
Join(ss, sep) ==
    IF Len(ss) = 0 THEN ""
    ELSE IF Len(ss) = 1 THEN ss[1]
    ELSE ss[1] \o sep \o Join(Tail(ss), sep)

RECURSIVE SumSeq(_)
SumSeq(s) == IF Len(s) = 0 THEN 0 ELSE s[1] + SumSeq(Tail(s))

\* str.strip(): a raw transcript is its body plus optional surrounding blanks
Strip(raw) == raw.body

(***************************************************************************)
(* Collaborator responses a request can meet.                              *)
(***************************************************************************)
\* speaker scores, with the thresholds 0.75 and 0.90 themselves
Scores == {60, 75, 80, 90, 95}

Similarities == {50, 90}

RawTexts == { [pad |-> TRUE, body |-> "lights on"],
              [pad |-> FALSE, body |-> "lights off"] }

\* audio metadata lookup: the tuple processor.get_audio_metadata returns,
\* the dict controller_new.py expects, or an exception
MetaOutcomes == {"tuple", "dict", "raise"}

\* "raise" is a verification collaborator that throws (as a patched
\* verify_speaker can); verify_speaker itself turns its own errors into
\* (False, 0.0)
VerifyOutcomes ==
    { [kind |-> "no_voiceprint", score |-> 0],
      [kind |-> "raise", score |-> 0] }
    \cup { [kind |-> "score", score |-> s] : s \in Scores }

OpenAIOutcomes ==
    { [kind |-> "raise", raw |-> [pad |-> FALSE, body |-> ""]] }
    \cup { [kind |-> "ok", raw |-> r] : r \in RawTexts }

LocalOutcomes ==
    { [kind |-> "raise", raw |-> [pad |-> FALSE, body |-> ""],
       confidence |-> 0, language |-> "unknown"] }
    \cup { [kind |-> "ok", raw |-> r, confidence |-> c, language |-> "ru"] :
             r \in RawTexts, c \in {40, 85, 90} }

\* response of the remote HTTP API of controller.py; "none" is a non-200
\* answer or a transport error
RemoteOutcomes ==
    { [kind |-> "none", text |-> "", confidence |-> 0, speaker_match |-> None],
      [kind |-> "ok", text |-> "", confidence |-> 95, speaker_match |-> None],
      [kind |-> "ok", text |-> "lights on", confidence |-> 95, speaker_match |-> None],
      [kind |-> "ok", text |-> "lights dim", confidence |-> 95, speaker_match |-> 55],
      [kind |-> "ok", text |-> "lights dim", confidence |-> 40, speaker_match |-> None],
      [kind |-> "ok", text |-> "lights on", confidence |-> 90, speaker_match |-> None] }

SimilarityOutcomes ==
    { [kind |-> "raise", value |-> 0] }
    \cup { [kind |-> "ok", value |-> s] : s \in Similarities }

\* verify_speaker answering "verified" when its own processing fails
verify_speaker_fail_open(v) ==
    IF v.kind = "raise"
      THEN [raised |-> TRUE, verified |-> FALSE, score |-> 0]
    ELSE IF v.kind = "score"
      THEN [raised |-> FALSE,
            verified |-> v.score >= VERIFICATION_THRESHOLD,
            score |-> v.score]
    ELSE [raised |-> FALSE, verified |-> TRUE, score |-> 0]

\* verify_speaker with a strict comparison against the threshold
verify_speaker_strict(v) ==
    IF v.kind = "raise"
      THEN [raised |-> TRUE, verified |-> FALSE, score |-> 0]
    ELSE IF v.kind = "score"
      THEN [raised |-> FALSE,
            verified |-> v.score > VERIFICATION_THRESHOLD,
            score |-> v.score]
    ELSE [raised |-> FALSE, verified |-> FALSE, score |-> 0]

(***************************************************************************)
(* verification.verify_speaker                                             *)
(***************************************************************************)
verify_speaker(v) ==
    IF v.kind = "raise"
      THEN [raised |-> TRUE, verified |-> FALSE, score |-> 0]
    ELSE IF v.kind = "score"
      THEN [raised |-> FALSE,
            verified |-> v.score >= VERIFICATION_THRESHOLD,
            score |-> v.score]
    ELSE [raised |-> FALSE, verified |-> FALSE, score |-> 0]

(***************************************************************************)
(* speech_recognition.transcribe_audio (the local Whisper provider)        *)
(***************************************************************************)
local_transcribe(c, e, detailed) ==
    IF ~c.whisper_model
      THEN [raised |-> TRUE, msg |-> "Whisper model not initialized",
            text |-> "", confidence |-> 0, language |-> ""]
    ELSE IF e.local.kind = "raise"
      THEN [raised |-> FALSE, msg |-> "",
            text |-> "Error during transcription",
            confidence |-> 0, language |-> "unknown"]
    ELSE [raised |-> FALSE, msg |-> "",
          text |-> IF detailed THEN Strip(e.local.raw) ELSE MINIMAL_TEXT,
          confidence |-> IF detailed THEN e.local.confidence
                         ELSE Min(e.local.confidence, UNAUTHORIZED_CAP),
          language |-> e.local.language]

\* transcribe_with_openai without its file size check
transcribe_with_openai_unchecked(c, e, oversize, language) ==
    IF ~c.openai_client
      THEN [raised |-> TRUE, sent |-> FALSE,
            msg |-> "OpenAI client not initialized",
            text |-> "", confidence |-> 0, language |-> ""]
    ELSE IF e.openai.kind = "raise"
      THEN [raised |-> TRUE, sent |-> TRUE, msg |-> "API error",
            text |-> "", confidence |-> 0, language |-> ""]
    ELSE [raised |-> FALSE, sent |-> TRUE, msg |-> "",
          text |-> Strip(e.openai.raw),
          confidence |-> OPENAI_CONFIDENCE,
          language |-> IF language = "" THEN "auto" ELSE language]

(***************************************************************************)
(* openai_whisper.transcribe_with_openai                                   *)
(***************************************************************************)
transcribe_with_openai(c, e, oversize, language) ==
    IF ~c.openai_client
      THEN [raised |-> TRUE, sent |-> FALSE,
            msg |-> "OpenAI client not initialized",
            text |-> "", confidence |-> 0, language |-> ""]
    ELSE IF oversize
      THEN [raised |-> TRUE, sent |-> FALSE,
            msg |-> "File size exceeds OpenAI limit",
            text |-> "", confidence |-> 0, language |-> ""]
    ELSE IF e.openai.kind = "raise"
      THEN [raised |-> TRUE, sent |-> TRUE, msg |-> "API error",
            text |-> "", confidence |-> 0, language |-> ""]
    ELSE [raised |-> FALSE, sent |-> TRUE, msg |-> "",
          text |-> Strip(e.openai.raw),
          confidence |-> OPENAI_CONFIDENCE,
          language |-> IF language = "" THEN "auto" ELSE language]

(***************************************************************************)
(* openai_whisper.transcribe_audio_hybrid (the provider router)            *)
(* Returns the candidate, the provider calls made in order, and the        *)
(* recorded errors.                                                        *)
(***************************************************************************)
transcribe_audio_hybrid(c, e, detailed, language, use_openai_first, oversize) ==
    LET tryOpenAI == use_openai_first /\ c.openai_client
        o == transcribe_with_openai(c, e, oversize, language)
        errs1 == IF tryOpenAI /\ o.raised
                   THEN <<"OpenAI transcription failed: " \o o.msg>>
                   ELSE <<>>
        calls1 == IF tryOpenAI THEN <<"openai">> ELSE <<>>
        l == local_transcribe(c, e, detailed)
        errs2 == IF l.raised
                   THEN Append(errs1, "Local Whisper transcription failed: " \o l.msg)
                   ELSE errs1
    IN  IF tryOpenAI /\ ~o.raised
          THEN [text |-> IF detailed THEN o.text ELSE MINIMAL_TEXT,
                confidence |-> IF detailed THEN o.confidence
                               ELSE Min(o.confidence, UNAUTHORIZED_CAP),
                language |-> o.language, source |-> "openai",
                calls |-> calls1, errors |-> <<>>]
        ELSE IF c.FALLBACK_TO_LOCAL /\ ~l.raised
          THEN [text |-> l.text, confidence |-> l.confidence,
                language |-> l.language, source |-> "local",
                calls |-> Append(calls1, "local"), errors |-> errs1]
        ELSE IF c.FALLBACK_TO_LOCAL
          THEN [text |-> "Transcription failed: " \o Join(errs2, "; "),
                confidence |-> 0, language |-> "unknown", source |-> "failed",
                calls |-> Append(calls1, "local"), errors |-> errs2]
        ELSE [text |-> "Transcription failed: " \o Join(errs1, "; "),
              confidence |-> 0, language |-> "unknown", source |-> "failed",
              calls |-> calls1, errors |-> errs1]

(***************************************************************************)
(* openai_whisper.transcribe_large_audio, called for files above 25 MiB:   *)
(* split, transcribe every chunk through the router (OpenAI first), join.  *)
(***************************************************************************)
RECURSIVE ChunkResults(_, _, _, _, _)
ChunkResults(c, e, detailed, language, n) ==
    IF n = 0 THEN <<>>
    ELSE Append(ChunkResults(c, e, detailed, language, n - 1),
                transcribe_audio_hybrid(c, e, detailed, language, TRUE, FALSE))

RECURSIVE ConcatCalls(_)
ConcatCalls(rs) ==
    IF Len(rs) = 0 THEN <<>> ELSE rs[1].calls \o ConcatCalls(Tail(rs))

\* max(set(languages), key=languages.count): max returns the first maximal
\* element in the iteration order of the set, which for strings depends on
\* the hash seed of the process; every language of maximal count can be
\* the result
primary_language_candidates(languages) ==
    LET count(x) == Cardinality({i \in DOMAIN languages : languages[i] = x})
        vals == {languages[i] : i \in DOMAIN languages}
    IN  IF Len(languages) = 0 THEN {"unknown"}
        ELSE {x \in vals : \A y \in vals : count(y) <= count(x)}

\* used where every chunk of the request gets the same answer, so that
\* there is one candidate
primary_language(languages) ==
    CHOOSE x \in primary_language_candidates(languages) : TRUE

\* transcribe_large_audio adding the chunk confidences up without dividing
transcribe_large_audio_sum(c, e, detailed, language) ==
    IF e.split = "raise"
      THEN [raised |-> TRUE, text |-> "", confidence |-> 0, language |-> "",
            source |-> "", calls |-> <<"split">>]
    ELSE
      LET rs == ChunkResults(c, e, detailed, language, e.nChunks)
          transcriptions == [i \in DOMAIN rs |-> rs[i].text]
          confidences == [i \in DOMAIN rs |-> rs[i].confidence]
          languages == [i \in DOMAIN rs |-> rs[i].language]
      IN  [raised |-> FALSE,
           text |-> Join(transcriptions, " "),
           confidence |-> SumSeq(confidences),
           language |-> primary_language(languages),
           source |-> "chunked",
           calls |-> <<"split">> \o ConcatCalls(rs)]

transcribe_large_audio(c, e, detailed, language) ==
    IF e.split = "raise"
      THEN [raised |-> TRUE, text |-> "", confidence |-> 0, language |-> "",
            source |-> "", calls |-> <<"split">>]
    ELSE
      LET rs == ChunkResults(c, e, detailed, language, e.nChunks)
          transcriptions == [i \in DOMAIN rs |-> rs[i].text]
          confidences == [i \in DOMAIN rs |-> rs[i].confidence]
          languages == [i \in DOMAIN rs |-> rs[i].language]
      IN  [raised |-> FALSE,
           text |-> Join(transcriptions, " "),
           confidence |-> IF Len(confidences) = 0 THEN 0
                          ELSE SumSeq(confidences) \div Len(confidences),
           language |-> primary_language(languages),
           source |-> "chunked",
           calls |-> <<"split">> \o ConcatCalls(rs)]

(***************************************************************************)
(* The result dictionary both controllers return.  kind = "raised" stands  *)
(* for an exception leaving process_audio_hybrid instead of a result.      *)
(***************************************************************************)
Result(source, text, confidence, speaker_match, language, fallback_used, semantic_diff, debug) ==
    [kind |-> "result", source |-> source, text |-> text,
     confidence |-> confidence, speaker_match |-> speaker_match,
     language |-> language, fallback_used |-> fallback_used,
     semantic_diff |-> semantic_diff, debug |-> debug]

Raised ==
    [kind |-> "raised", source |-> "", text |-> "", confidence |-> 0,
     speaker_match |-> None, language |-> "", fallback_used |-> FALSE,
     semantic_diff |-> None, debug |-> FALSE]

\* the dictionary of the outermost except clause of controller_new.py
ErrorResult(msg) ==
    Result("error", "Processing error: " \o msg, 0, None, "unknown", FALSE,
           None, FALSE)

\* new_transcribe capping the confidence of every candidate at 0.5
new_transcribe_capped(c, r, e, authorized, speaker_match, calls0) ==
    LET large == e.size > MAX_SINGLE_SHOT_MB
        t == IF large
               THEN transcribe_large_audio(c, e, authorized, r.language)
               ELSE [raised |-> FALSE] @@
                    transcribe_audio_hybrid(c, e, authorized, r.language,
                                            c.PRIMARY_SERVICE = "openai", FALSE)
        calls1 == calls0 \o t.calls
        validate == r.use_semantics /\ c.sentence_transformer
                    /\ t.source = "local" /\ authorized
        o2 == transcribe_audio_hybrid(c, e, TRUE, r.language, TRUE, FALSE)
        calls2 == IF validate THEN Append(calls1 \o o2.calls, "embed")
                  ELSE calls1
        compared == validate /\ e.similarity.kind = "ok"
        replaced == compared /\ e.similarity.value < r.semantic_threshold
    IN  IF t.raised
          THEN [outcome |-> ErrorResult("Audio chunking failed"),
                calls |-> calls1]
        ELSE [outcome |->
                Result(IF replaced THEN "openai_semantic" ELSE t.source,
                       IF replaced THEN o2.text ELSE t.text,
                       IF replaced THEN o2.confidence
                       ELSE Min(t.confidence, UNAUTHORIZED_CAP),
                       speaker_match,
                       IF replaced THEN o2.language ELSE t.language,
                       t.source \in {"local", "chunked"},
                       IF compared THEN 100 - e.similarity.value ELSE None,
                       r.return_debug),
              calls |-> calls2]

(***************************************************************************)
(* controller_new.process_audio_hybrid, after the verification gate:       *)
(* routing, result update, semantic validation, debug payload.             *)
(***************************************************************************)
new_transcribe(c, r, e, authorized, speaker_match, calls0) ==
    LET large == e.size > MAX_SINGLE_SHOT_MB
        t == IF large
               THEN transcribe_large_audio(c, e, authorized, r.language)
               ELSE [raised |-> FALSE] @@
                    transcribe_audio_hybrid(c, e, authorized, r.language,
                                            c.PRIMARY_SERVICE = "openai", FALSE)
        calls1 == calls0 \o t.calls
        validate == r.use_semantics /\ c.sentence_transformer
                    /\ t.source = "local" /\ authorized
        o2 == transcribe_audio_hybrid(c, e, TRUE, r.language, TRUE, FALSE)
        calls2 == IF validate THEN Append(calls1 \o o2.calls, "embed")
                  ELSE calls1
        compared == validate /\ e.similarity.kind = "ok"
        replaced == compared /\ e.similarity.value < r.semantic_threshold
    IN  IF t.raised
          THEN [outcome |-> ErrorResult("Audio chunking failed"),
                calls |-> calls1]
        ELSE [outcome |->
                Result(IF replaced THEN "openai_semantic" ELSE t.source,
                       IF replaced THEN o2.text ELSE t.text,
                       IF replaced THEN o2.confidence ELSE t.confidence,
                       speaker_match,
                       IF replaced THEN o2.language ELSE t.language,
                       t.source \in {"local", "chunked"},
                       IF compared THEN 100 - e.similarity.value ELSE None,
                       r.return_debug),
              calls |-> calls2]

(***************************************************************************)
(* controller_new.process_audio_hybrid                                     *)
(***************************************************************************)
process_audio_hybrid_new(c, r, e) ==
    LET v == verify_speaker(e.verify)
        callsV == IF r.verify_speaker_flag THEN <<"metadata", "verify">>
                  ELSE <<"metadata">>
    IN  IF e.meta = "raise"
          THEN [outcome |-> ErrorResult("metadata lookup failed"),
                calls |-> <<"metadata">>]
        ELSE IF e.meta = "tuple"
          THEN [outcome |-> ErrorResult("'tuple' object has no attribute 'get'"),
                calls |-> <<"metadata">>]
        ELSE IF r.verify_speaker_flag /\ v.raised /\ ~r.return_debug
          THEN [outcome |-> Result("verification_error",
                                   "Speaker verification error", 0, 0,
                                   "unknown", FALSE, None, FALSE),
                calls |-> callsV]
        ELSE IF r.verify_speaker_flag /\ ~v.raised /\ ~v.verified
                /\ ~r.return_debug
          THEN [outcome |-> Result("verification_failed",
                                   "Speaker verification failed", 0, v.score,
                                   "unknown", FALSE, None, FALSE),
                calls |-> callsV]
        ELSE new_transcribe(c, r, e,
                            ~r.verify_speaker_flag \/ (~v.raised /\ v.verified),
                            IF ~r.verify_speaker_flag THEN None
                            ELSE IF v.raised THEN 0 ELSE v.score,
                            callsV)

(***************************************************************************)
(* controller.process_audio_remote: None, or the remote answer formatted   *)
(* as a result dictionary.                                                 *)
(***************************************************************************)
process_audio_remote(c, e) ==
    IF ~c.REMOTE_API_URL \/ e.remote.kind = "none"
      THEN [none |-> TRUE, result |-> Raised]
    ELSE [none |-> FALSE,
          result |-> Result("remote", e.remote.text, e.remote.confidence,
                            e.remote.speaker_match, "ru", FALSE, None, FALSE)]

(***************************************************************************)
(* controller.process_audio_hybrid: the except clause (lines 150-166).     *)
(* result is the dictionary as it stood when the exception was raised.     *)
(***************************************************************************)
legacy_recover(c, e, result, calls0) ==
    LET rr == process_audio_remote(c, e)
        calls1 == IF c.REMOTE_API_URL THEN Append(calls0, "remote") ELSE calls0
    IN  IF c.REMOTE_API_URL /\ ~rr.none
          THEN [outcome |-> [rr.result EXCEPT !.fallback_used = TRUE],
                calls |-> calls1]
        ELSE [outcome |-> [result EXCEPT !.text = "Error processing audio",
                                         !.confidence = 0],
              calls |-> calls1]

\* legacy_arbitrate without the enclosing try: an exception of the embedding
\* model leaves process_audio_hybrid
legacy_arbitrate_uncaught(c, e, local, calls0) ==
    LET rr == process_audio_remote(c, e)
        calls1 == Append(calls0, "remote")
        semantic == c.sentence_transformer /\ local.text # ""
                    /\ rr.result.text # ""
    IN  IF rr.none THEN [outcome |-> local, calls |-> calls1]
        ELSE IF semantic /\ e.similarity.kind = "raise"
          THEN [outcome |-> Raised, calls |-> Append(calls1, "embed")]
        ELSE [outcome |-> IF rr.result.confidence > local.confidence
                            THEN [rr.result EXCEPT !.fallback_used = TRUE]
                            ELSE local,
              calls |-> calls1]

\* legacy_arbitrate with the remote candidate winning on equal confidence
legacy_arbitrate_tie_to_remote(c, e, local, calls0) ==
    LET rr == process_audio_remote(c, e)
        calls1 == Append(calls0, "remote")
        semantic == c.sentence_transformer /\ local.text # ""
                    /\ rr.result.text # ""
        sim == e.similarity.value
        remoteBetter == rr.result.confidence >= local.confidence
    IN  IF rr.none THEN [outcome |-> local, calls |-> calls1]
        ELSE IF semantic /\ e.similarity.kind = "raise"
          THEN legacy_recover(c, e, local, Append(calls1, "embed"))
        ELSE IF semantic
          THEN [outcome |->
                  IF remoteBetter
                     /\ ~(sim >= c.semantic_threshold
                          /\ local.confidence >= LOCAL_PRIMARY_FLOOR)
                    THEN [rr.result EXCEPT !.fallback_used = TRUE,
                                           !.semantic_diff = sim]
                    ELSE [local EXCEPT !.semantic_diff = sim],
                calls |-> Append(calls1, "embed")]
        ELSE [outcome |-> IF remoteBetter
                            THEN [rr.result EXCEPT !.fallback_used = TRUE]
                            ELSE local,
              calls |-> calls1]

\* legacy_arbitrate without the test for a missing remote answer: the use
\* of None raises and the except clause takes over
legacy_arbitrate_unguarded(c, e, local, calls0) ==
    LET rr == process_audio_remote(c, e)
        calls1 == Append(calls0, "remote")
        semantic == c.sentence_transformer /\ local.text # ""
                    /\ rr.result.text # ""
        sim == e.similarity.value
        remoteBetter == rr.result.confidence > local.confidence
    IN  IF rr.none THEN legacy_recover(c, e, local, calls1)
        ELSE IF semantic /\ e.similarity.kind = "raise"
          THEN legacy_recover(c, e, local, Append(calls1, "embed"))
        ELSE IF semantic
          THEN [outcome |->
                  IF remoteBetter
                     /\ ~(sim >= c.semantic_threshold
                          /\ local.confidence >= LOCAL_PRIMARY_FLOOR)
                    THEN [rr.result EXCEPT !.fallback_used = TRUE,
                                           !.semantic_diff = sim]
                    ELSE [local EXCEPT !.semantic_diff = sim],
                calls |-> Append(calls1, "embed")]
        ELSE [outcome |-> IF remoteBetter
                            THEN [rr.result EXCEPT !.fallback_used = TRUE]
                            ELSE local,
              calls |-> calls1]

(***************************************************************************)
(* controller.process_audio_hybrid: arbitration between the local result   *)
(* and the remote one (lines 117-148).                                     *)
(***************************************************************************)
legacy_arbitrate(c, e, local, calls0) ==
    LET rr == process_audio_remote(c, e)
        calls1 == Append(calls0, "remote")
        semantic == c.sentence_transformer /\ local.text # ""
                    /\ rr.result.text # ""
        sim == e.similarity.value
        remoteBetter == rr.result.confidence > local.confidence
    IN  IF rr.none THEN [outcome |-> local, calls |-> calls1]
        ELSE IF semantic /\ e.similarity.kind = "raise"
          THEN legacy_recover(c, e, local, Append(calls1, "embed"))
        ELSE IF semantic
          THEN [outcome |->
                  IF remoteBetter
                     /\ ~(sim >= c.semantic_threshold
                          /\ local.confidence >= LOCAL_PRIMARY_FLOOR)
                    THEN [rr.result EXCEPT !.fallback_used = TRUE,
                                           !.semantic_diff = sim]
                    ELSE [local EXCEPT !.semantic_diff = sim],
                calls |-> Append(calls1, "embed")]
        ELSE [outcome |-> IF remoteBetter
                            THEN [rr.result EXCEPT !.fallback_used = TRUE]
                            ELSE local,
              calls |-> calls1]

\* use_fallback without the speaker-score test
use_fallback_confidence_only(confidence, verify_speaker_flag, speaker_match) ==
    confidence < MIN_CONFIDENCE

\* the fallback decision of controller.py (lines 104-115)
use_fallback(confidence, verify_speaker_flag, speaker_match) ==
    \/ confidence < MIN_CONFIDENCE
    \/ verify_speaker_flag /\ speaker_match < MIN_SPEAKER_MATCH

(***************************************************************************)
(* controller.process_audio_hybrid                                         *)
(***************************************************************************)
process_audio_hybrid(c, r, e) ==
    LET initial == Result("local", "", 0,
                          IF r.verify_speaker_flag THEN 0 ELSE None,
                          "", FALSE, None, FALSE)
        v == verify_speaker(e.verify)
        callsV == IF r.verify_speaker_flag THEN <<"metadata", "verify">>
                  ELSE <<"metadata">>
        speaker_match == IF r.verify_speaker_flag THEN v.score ELSE 0
        verified == IF r.verify_speaker_flag
                      THEN [initial EXCEPT !.speaker_match = v.score]
                      ELSE initial
        l == local_transcribe(c, e, TRUE)
        callsL == Append(callsV, "local")
        local == [verified EXCEPT !.text = l.text,
                                  !.confidence = l.confidence,
                                  !.language = l.language]
    IN  IF e.meta # "tuple"
          THEN [outcome |-> Raised, calls |-> <<"metadata">>]
        ELSE IF r.verify_speaker_flag /\ v.raised
          THEN legacy_recover(c, e, initial, callsV)
        ELSE IF l.raised
          THEN legacy_recover(c, e, verified, callsL)
        ELSE IF use_fallback(l.confidence, r.verify_speaker_flag, speaker_match)
                /\ c.REMOTE_API_URL
          THEN legacy_arbitrate(c, e, local, callsL)
        ELSE [outcome |-> local, calls |-> callsL]

(***************************************************************************)
(* Process configuration, read once at import time.                        *)
(***************************************************************************)
LegacyCfgs ==
    { [controller |-> "controller", PRIMARY_SERVICE |-> "local",
       openai_client |-> FALSE, FALLBACK_TO_LOCAL |-> TRUE,
       whisper_model |-> w, REMOTE_API_URL |-> u,
       sentence_transformer |-> st,
       semantic_threshold |-> SEMANTIC_THRESHOLD] :
         w \in BOOLEAN, u \in BOOLEAN, st \in BOOLEAN }

NewCfgs ==
    { [controller |-> "controller_new", PRIMARY_SERVICE |-> ps,
       openai_client |-> oc, FALLBACK_TO_LOCAL |-> fb,
       whisper_model |-> w, REMOTE_API_URL |-> FALSE,
       sentence_transformer |-> st,
       semantic_threshold |-> SEMANTIC_THRESHOLD] :
         ps \in {"openai", "local"}, oc \in BOOLEAN, fb \in BOOLEAN,
         w \in BOOLEAN, st \in BOOLEAN }

(***************************************************************************)
(* Requests and the responses of the collaborators during one request.     *)
(* A collaborator that the configuration or the request rules out is given *)
(* one fixed response, since it is never asked.                            *)
(***************************************************************************)
NoVerify == [kind |-> "no_voiceprint", score |-> 0]

NoOpenAI == [kind |-> "raise", raw |-> [pad |-> FALSE, body |-> ""]]

NoLocal == [kind |-> "raise", raw |-> [pad |-> FALSE, body |-> ""],
            confidence |-> 0, language |-> "unknown"]

NoRemote == [kind |-> "none", text |-> "", confidence |-> 0,
             speaker_match |-> None]

NoSimilarity == [kind |-> "raise", value |-> 0]

NoRequest == [verify_speaker_flag |-> FALSE, return_debug |-> FALSE,
              use_semantics |-> FALSE, semantic_threshold |-> 0,
              language |-> ""]

NoEnv == [meta |-> "raise", size |-> 25, split |-> "ok", nChunks |-> 0,
          verify |-> NoVerify, openai |-> NoOpenAI, local |-> NoLocal,
          remote |-> NoRemote, similarity |-> NoSimilarity]

\* file at the single-shot ceiling (MiB), file above it split into n chunks,
\* file above it whose split fails
Sizes ==
    { [size |-> 25, split |-> "ok", nChunks |-> 0],
      [size |-> 26, split |-> "raise", nChunks |-> 0] }
    \cup { [size |-> 26, split |-> "ok", nChunks |-> n] :
              n \in 2..MaxChunks }

LegacyRequests ==
    { [verify_speaker_flag |-> vf, return_debug |-> d,
       use_semantics |-> FALSE, semantic_threshold |-> 0, language |-> ""] :
         vf \in BOOLEAN, d \in BOOLEAN }

NewRequests ==
    { [verify_speaker_flag |-> vf, return_debug |-> d,
       use_semantics |-> us, semantic_threshold |-> 80, language |-> lg] :
         vf \in BOOLEAN, d \in BOOLEAN, us \in BOOLEAN, lg \in {"", "ru"} }

LegacyEnvs(c, r) ==
    { [meta |-> "tuple", size |-> 25, split |-> "ok", nChunks |-> 0,
       verify |-> v, openai |-> NoOpenAI, local |-> l, remote |-> rm,
       similarity |-> sm] :
         v \in IF r.verify_speaker_flag THEN VerifyOutcomes ELSE {NoVerify},
         l \in IF c.whisper_model THEN LocalOutcomes ELSE {NoLocal},
         rm \in IF c.REMOTE_API_URL THEN RemoteOutcomes ELSE {NoRemote},
         sm \in IF c.sentence_transformer /\ c.REMOTE_API_URL
                  THEN SimilarityOutcomes ELSE {NoSimilarity} }
    \cup { [NoEnv EXCEPT !.meta = m] : m \in MetaOutcomes \ {"tuple"} }

NewEnvs(c, r) ==
    { [meta |-> "dict", size |-> sz.size, split |-> sz.split,
       nChunks |-> sz.nChunks,
       verify |-> v, openai |-> o, local |-> l, remote |-> NoRemote,
       similarity |-> sm] :
         sz \in Sizes,
         v \in IF r.verify_speaker_flag THEN VerifyOutcomes ELSE {NoVerify},
         o \in IF c.openai_client THEN OpenAIOutcomes ELSE {NoOpenAI},
         l \in IF c.whisper_model /\ c.FALLBACK_TO_LOCAL
                 THEN LocalOutcomes ELSE {NoLocal},
         sm \in IF c.sentence_transformer /\ r.use_semantics
                  THEN SimilarityOutcomes ELSE {NoSimilarity} }
    \cup { [NoEnv EXCEPT !.meta = m] : m \in MetaOutcomes \ {"dict"} }

(***************************************************************************)
(* The engine as a function of configuration, request and responses.       *)
(***************************************************************************)
Engine(c, r, e) ==
    IF c.controller = "controller" THEN process_audio_hybrid(c, r, e)
    ELSE process_audio_hybrid_new(c, r, e)

(***************************************************************************)
(* The process environment.  controller.py reads the variable              *)
(* WHISPER_HYBRID_STT_SEMANTIC_THRESHOLD at every request (lines 60-67);   *)
(* environ is its value, None when it is unset.  hybrid_stt.process_audio  *)
(* writes it.                                                              *)
(***************************************************************************)
semantic_threshold_value(c, environment) ==
    IF c.controller = "controller" /\ environment # None THEN environment
    ELSE c.semantic_threshold

\* the configuration as the request that starts now sees it
Effective(c, environment) ==
    [c EXCEPT !.semantic_threshold = semantic_threshold_value(c, environment)]

\* values of --semantic_threshold given to the command-line tool
CliThresholds == {95}

CliRequests ==
    { [verify_speaker_flag |-> vf, return_debug |-> TRUE,
       use_semantics |-> us, semantic_threshold |-> st, language |-> ""] :
         vf \in BOOLEAN, us \in BOOLEAN, st \in {0} \cup CliThresholds }

\* job of a process that is not inside a chunked transcription
NoJob ==
    [pc |-> "none", size |-> 0, total |-> 0, detailed |-> FALSE,
     prompt |-> "", fault |-> "none", chunks |-> <<>>, files |-> {},
     handed |-> <<>>, sent |-> <<>>, transcriptions |-> <<>>,
     confidences |-> <<>>, languages |-> <<>>,
     result |-> [text |-> "", confidence |-> 0, language |-> "",
                 source |-> ""]]

(***************************************************************************)
(* State machine: a process with a fixed configuration serves requests     *)
(* one after the other.                                                    *)
(***************************************************************************)
Init ==
    /\ cfg \in LegacyCfgs \cup NewCfgs
    /\ phase = "idle"
    /\ req = NoRequest
    /\ env = NoEnv
    /\ outcome = Raised
    /\ calls = <<>>
    /\ environ = None
    /\ job = NoJob

\* a request served by controller.py
ProcessAudioHybrid ==
    /\ phase = "idle"
    /\ cfg.controller = "controller"
    /\ \E r \in LegacyRequests : \E e \in LegacyEnvs(cfg, r) :
         LET run == process_audio_hybrid(Effective(cfg, environ), r, e)
         IN  /\ req' = r
             /\ env' = e
             /\ outcome' = run.outcome
             /\ calls' = run.calls
    /\ phase' = "done"
    /\ UNCHANGED <<cfg, environ, job>>

\* hybrid_stt.process_audio: the command-line entry point stores its
\* semantic_threshold argument in the process environment and then calls
\* controller.process_audio_hybrid with return_debug=True.  With
\* use_semantics it also sets WHISPER_HYBRID_STT_USE_SEMANTIC_VALIDATION,
\* which controller.py reads only when it is imported (lines 32-41), before
\* the first call: the write changes nothing in this process
CliProcessAudio ==
    /\ phase = "idle"
    /\ cfg.controller = "controller"
    /\ \E r \in CliRequests : \E e \in LegacyEnvs(cfg, r) :
         LET written == IF r.semantic_threshold # 0 THEN r.semantic_threshold
                        ELSE environ
             run == process_audio_hybrid(Effective(cfg, written), r, e)
         IN  /\ environ' = written
             /\ req' = r
             /\ env' = e
             /\ outcome' = run.outcome
             /\ calls' = run.calls
    /\ phase' = "done"
    /\ UNCHANGED <<cfg, job>>

\* a request served by controller_new.py
ProcessAudioHybridNew ==
    /\ phase = "idle"
    /\ cfg.controller = "controller_new"
    /\ \E r \in NewRequests : \E e \in NewEnvs(cfg, r) :
         LET run == process_audio_hybrid_new(cfg, r, e)
         IN  /\ req' = r
             /\ env' = e
             /\ outcome' = run.outcome
             /\ calls' = run.calls
    /\ phase' = "done"
    /\ UNCHANGED <<cfg, environ, job>>

\* the caller has taken the result; the process waits for the next request
NextRequest ==
    /\ phase = "done"
    /\ phase' = "idle"
    /\ req' = NoRequest
    /\ env' = NoEnv
    /\ outcome' = Raised
    /\ calls' = <<>>
    /\ UNCHANGED <<cfg, environ, job>>

Next ==
    ProcessAudioHybrid \/ ProcessAudioHybridNew \/ CliProcessAudio
      \/ NextRequest

Spec == Init /\ [][Next]_vars

(***************************************************************************)
(* Vocabulary of the properties.                                           *)
(***************************************************************************)
Providers == {"openai", "local", "remote"}

IsProviderCall(x) == x \in Providers

\* the provider attempts of the request, in order
ProviderCalls == SelectSeq(calls, IsProviderCall)

Called(x) == \E i \in DOMAIN calls : calls[i] = x

CallCount(x) == Cardinality({i \in DOMAIN calls : calls[i] = x})

\* whether an attempt on provider p fails under the responses of the request
ProviderFails(p) ==
    IF p = "openai" THEN ~cfg.openai_client \/ env.openai.kind = "raise"
    ELSE IF p = "local" THEN ~cfg.whisper_model \/ env.local.kind = "raise"
    ELSE ~cfg.REMOTE_API_URL \/ env.remote.kind = "none"

Done == phase = "done"

Returned == Done /\ outcome.kind = "result"

\* verification was required, was carried out, and did not pass
Unauthorized ==
    /\ Done
    /\ req.verify_speaker_flag
    /\ Called("verify")
    /\ ~verify_speaker(env.verify).verified

Chunked == Called("split")

\* every collaborator other than the verification answers normally: the
\* metadata lookup, the split, and the providers of the controller
Healthy ==
    /\ env.split = "ok"
    /\ IF cfg.controller = "controller"
         THEN env.meta = "tuple" /\ cfg.whisper_model /\ env.local.kind = "ok"
         ELSE /\ env.meta = "dict"
              /\ cfg.openai_client /\ env.openai.kind = "ok"
              /\ cfg.FALLBACK_TO_LOCAL /\ cfg.whisper_model
              /\ env.local.kind = "ok"

----------------------------------------------------------------------------
(***************************************************************************)
(* C1: for every request and every combination of collaborator outcomes,   *)
(* process_audio_hybrid returns one outcome record and no exception        *)
(* escapes to the caller.  (Original statement; it fails on controller.py, *)
(* whose metadata lookup is outside the try block.)                        *)
(***************************************************************************)
C1_AlwaysReturnsOutcome == Done => outcome.kind = "result"

(***************************************************************************)
(* C1 as amended: a request ends with exactly one outcome record whatever  *)
(* the verification, provider and embedding collaborators do; an exception *)
(* reaches the caller only from the audio metadata lookup, and only in     *)
(* controller.py.                                                          *)
(***************************************************************************)
C1_OnlyMetadataFailureEscapes ==
    Done => ( outcome.kind = "raised"
                <=> (cfg.controller = "controller" /\ env.meta # "tuple") )

\* a collaborator raised in the middle of a request and a record came back
C1_Witness ==
    /\ Returned
    /\ cfg.controller = "controller"
    /\ Called("embed")
    /\ env.similarity.kind = "raise"
    /\ outcome.source = "remote"

----------------------------------------------------------------------------
AllAttemptsFailed ==
    /\ Len(ProviderCalls) > 0
    /\ \A i \in DOMAIN ProviderCalls : ProviderFails(ProviderCalls[i])

(***************************************************************************)
(* C2: whenever every provider attempt of a request fails, the outcome has *)
(* origin tag failed and confidence 0.                                     *)
(***************************************************************************)
C2_AllFailedGivesFailed ==
    Returned /\ AllAttemptsFailed
      => outcome.source = "failed" /\ outcome.confidence = 0

----------------------------------------------------------------------------
GATE_TEXT == "Speaker verification failed"

(***************************************************************************)
(* C3: when verification is required and the caller is not verified, the   *)
(* outcome has source verification_failed, its text is the fixed           *)
(* placeholder and its confidence is at most 0.5, whatever the debug flag. *)
(* Stated for requests in which every other collaborator answers normally. *)
(***************************************************************************)
C3_UnauthorizedGate ==
    Returned /\ Unauthorized /\ ~verify_speaker(env.verify).raised /\ Healthy
      => /\ outcome.source = "verification_failed"
         /\ outcome.text \in {GATE_TEXT, MINIMAL_TEXT}
         /\ outcome.confidence <= UNAUTHORIZED_CAP

----------------------------------------------------------------------------
\* the responses e with the transcripts of the providers replaced
WithTranscripts(e, o, l, t) ==
    [e EXCEPT !.openai = IF @.kind = "ok" THEN [@ EXCEPT !.raw = o] ELSE @,
              !.local = IF @.kind = "ok" THEN [@ EXCEPT !.raw = l] ELSE @,
              !.remote = IF @.kind = "ok" THEN [@ EXCEPT !.text = t] ELSE @]

(***************************************************************************)
(* C4: for an unauthorized caller the text of the outcome does not depend  *)
(* on what the providers transcribed: a run that differs only in the       *)
(* transcripts of the providers yields the same outcome text.              *)
(***************************************************************************)
C4_TextIndependentOfTranscripts ==
    Returned /\ Unauthorized
      => \A o \in RawTexts, l \in RawTexts, t \in {"lights on", "lights dim"} :
           Engine(cfg, req, WithTranscripts(env, o, l, t)).outcome.text
             = outcome.text

----------------------------------------------------------------------------
(***************************************************************************)
(* C5: when the caller is unauthorized a provider call is still made      *)
(* after the verification, and the redaction is applied to the result of   *)
(* that call; the call is never skipped because of the gate result.        *)
(* Stated for requests in which every other collaborator answers normally. *)
(***************************************************************************)
C5_UnauthorizedStillCallsProvider ==
    Returned /\ Unauthorized /\ Healthy
      => \E i, j \in DOMAIN calls :
           i < j /\ calls[i] = "verify" /\ IsProviderCall(calls[j])

----------------------------------------------------------------------------
\* a provider was tried after another one had been tried on the same audio
SecondAttemptIssued ==
    IF Chunked THEN Called("openai") /\ Called("local")
    ELSE Len(ProviderCalls) >= 2

(***************************************************************************)
(* C6: in every outcome fallback_used is true if and only if a second      *)
(* provider attempt was issued while processing the request.  Stated for   *)
(* requests in which every collaborator answers normally.                  *)
(***************************************************************************)
C6_FallbackUsedIffSecondAttempt ==
    Returned /\ Healthy => (outcome.fallback_used <=> SecondAttemptIssued)

----------------------------------------------------------------------------
SpecSources ==
    {"local", "remote", "chunked", "openai_semantic", "verification_failed",
     "verification_error", "failed"}

(***************************************************************************)
(* C7: the source of every outcome is one of local, remote, chunked,       *)
(* openai_semantic, verification_failed, verification_error, failed, and   *)
(* a failure shows as failed with confidence 0 and an explanatory text.    *)
(* Stated for requests in which every collaborator answers normally.       *)
(***************************************************************************)
C7_SourceInDocumentedSet ==
    Returned /\ Healthy
      => /\ outcome.source \in SpecSources
         /\ outcome.source = "failed"
              => outcome.confidence = 0 /\ outcome.text # ""

----------------------------------------------------------------------------
PrimaryFields(o) ==
    <<o.kind, o.source, o.text, o.confidence, o.language, o.speaker_match,
      o.fallback_used, o.semantic_diff>>

(***************************************************************************)
(* C8: requesting debug output only adds the debug payload: with the same  *)
(* request and the same collaborator responses, the outcome with debug and *)
(* the outcome without it agree on every primary field and the same        *)
(* provider calls are made.  Stated for requests in which every            *)
(* collaborator other than the verification answers normally.              *)
(***************************************************************************)
C8_DebugIsAdditive ==
    Done /\ Healthy =>
      LET with == Engine(cfg, [req EXCEPT !.return_debug = TRUE], env)
          without == Engine(cfg, [req EXCEPT !.return_debug = FALSE], env)
      IN  /\ PrimaryFields(with.outcome) = PrimaryFields(without.outcome)
          /\ with.calls = without.calls

----------------------------------------------------------------------------
\* the router of controller_new.py ran on the whole file, with the local
\* provider enabled
RouterRan ==
    /\ Returned
    /\ cfg.controller = "controller_new"
    /\ cfg.FALLBACK_TO_LOCAL
    /\ env.meta = "dict"
    /\ env.size <= MAX_SINGLE_SHOT_MB
    /\ outcome.source \notin {"verification_failed", "verification_error"}

ConfiguredOrder ==
    IF cfg.PRIMARY_SERVICE = "openai" THEN <<"openai", "local">>
    ELSE <<"local", "openai">>

Available(p) == p = "openai" => cfg.openai_client

\* the call on provider p ends with an error seen by its caller
CallRaises(p) ==
    IF p = "openai" THEN transcribe_with_openai(cfg, env, FALSE, "").raised
    ELSE IF p = "local" THEN local_transcribe(cfg, env, TRUE).raised
    ELSE process_audio_remote(cfg, env).none

RECURSIVE ExpectedCalls(_)
ExpectedCalls(order) ==
    IF Len(order) = 0 THEN <<>>
    ELSE IF CallRaises(order[1])
      THEN <<order[1]>> \o ExpectedCalls(Tail(order))
    ELSE <<order[1]>>

(***************************************************************************)
(* C9: the router calls the first available provider of the configured     *)
(* order, on failure records the error and calls the next one, and returns *)
(* failed (confidence 0, aggregated error text) only if all of them        *)
(* failed; for both orders and when the remote client is unavailable.      *)
(***************************************************************************)
C9_RouterFollowsOrder ==
    RouterRan =>
      LET t == transcribe_audio_hybrid(cfg, env,
                 ~req.verify_speaker_flag \/ verify_speaker(env.verify).verified,
                 req.language, cfg.PRIMARY_SERVICE = "openai", FALSE)
          order == SelectSeq(ConfiguredOrder, Available)
      IN  /\ t.calls = ExpectedCalls(order)
          /\ t.source = "failed"
               <=> \A i \in DOMAIN order : CallRaises(order[i])
          /\ t.source = "failed"
               => /\ t.confidence = 0
                  /\ t.text = "Transcription failed: " \o Join(t.errors, "; ")
                  /\ Len(t.errors) = Len(t.calls)

----------------------------------------------------------------------------
(***************************************************************************)
(* C10: within one request a provider that has been attempted and has      *)
(* failed is not attempted again on the same audio.                        *)
(***************************************************************************)
C10_FailedProviderNotRetried ==
    Done /\ ~Chunked
      => \A p \in Providers : CallRaises(p) => CallCount(p) <= 1

----------------------------------------------------------------------------
(***************************************************************************)
(* C11: a request that is not chunked, and whose primary provider answers, *)
(* makes at most two provider calls: the primary provider first and then   *)
(* at most one fallback call on the alternate provider, one after the      *)
(* other.                                                                  *)
(***************************************************************************)
C11_AtMostTwoProviderCalls ==
    Done /\ ~Chunked /\ Healthy
      => /\ Len(ProviderCalls) <= 2
         /\ Len(ProviderCalls) = 2 => ProviderCalls[1] # ProviderCalls[2]

----------------------------------------------------------------------------
\* the candidate of the local provider of controller.py
PrimaryLocal == local_transcribe(cfg, env, TRUE)

\* controller.py reached its fallback decision: the metadata lookup, the
\* verification (when requested) and the local transcription all returned
LegacyDecided ==
    /\ Done
    /\ cfg.controller = "controller"
    /\ env.meta = "tuple"
    /\ ~(req.verify_speaker_flag /\ verify_speaker(env.verify).raised)
    /\ ~PrimaryLocal.raised

\* the calls controller.py has made when it takes the fallback decision
LegacyPrefix ==
    IF req.verify_speaker_flag THEN <<"metadata", "verify", "local">>
    ELSE <<"metadata", "local">>

(***************************************************************************)
(* C12: controller.py needs a second provider attempt exactly when the     *)
(* primary confidence is below MIN_CONFIDENCE, or verification was         *)
(* requested and the speaker score is below MIN_SPEAKER_MATCH; taking the  *)
(* decision makes no call: with a remote API configured the remote call    *)
(* directly follows the local one exactly in that case, and otherwise the  *)
(* request ends with the local call.                                       *)
(***************************************************************************)
C12_FallbackDecision ==
    LegacyDecided =>
      LET needed ==
            \/ PrimaryLocal.confidence < MIN_CONFIDENCE
            \/ /\ req.verify_speaker_flag
               /\ verify_speaker(env.verify).score < MIN_SPEAKER_MATCH
          n == Len(LegacyPrefix)
      IN  /\ SubSeq(calls, 1, n) = LegacyPrefix
          /\ IF needed /\ cfg.REMOTE_API_URL
               THEN Len(calls) > n /\ calls[n + 1] = "remote"
               ELSE calls = LegacyPrefix

\* the speaker-score half of the decision alone triggers the remote call
C12_Witness ==
    /\ LegacyDecided
    /\ req.verify_speaker_flag
    /\ PrimaryLocal.confidence >= MIN_CONFIDENCE
    /\ verify_speaker(env.verify).score < MIN_SPEAKER_MATCH
    /\ verify_speaker(env.verify).verified
    /\ Called("remote")

----------------------------------------------------------------------------
\* the caller may see the full transcript
Authorized ==
    ~req.verify_speaker_flag
      \/ (~verify_speaker(env.verify).raised /\ verify_speaker(env.verify).verified)

\* confidence of the candidate of the first provider call
PrimaryConfidence ==
    IF cfg.controller = "controller" THEN PrimaryLocal.confidence
    ELSE IF cfg.PRIMARY_SERVICE = "openai" THEN OPENAI_CONFIDENCE
    ELSE PrimaryLocal.confidence

PrimaryBelowThreshold ==
    \/ PrimaryConfidence < MIN_CONFIDENCE
    \/ /\ req.verify_speaker_flag
       /\ verify_speaker(env.verify).score < MIN_SPEAKER_MATCH

\* the provider other than the primary one can be asked
AlternateAvailable ==
    IF cfg.controller = "controller" THEN cfg.REMOTE_API_URL
    ELSE cfg.openai_client /\ cfg.whisper_model /\ cfg.FALLBACK_TO_LOCAL

(***************************************************************************)
(* C13: whenever the primary result is below a threshold the engine makes  *)
(* a second attempt with the alternate provider; in particular, with       *)
(* semantic validation off, a local confidence below MIN_CONFIDENCE and a  *)
(* remote answer of strictly higher confidence give an outcome of source   *)
(* "remote" with fallback_used true.                                       *)
(***************************************************************************)
C13_LowPrimaryTriggersSecondAttempt ==
    /\ (Returned /\ ~Chunked /\ Healthy /\ Authorized /\ AlternateAvailable
          /\ PrimaryBelowThreshold)
         => /\ Len(ProviderCalls) >= 2
            /\ ProviderCalls[2] # ProviderCalls[1]
    /\ (LegacyDecided /\ ~cfg.sentence_transformer /\ cfg.REMOTE_API_URL
          /\ PrimaryLocal.confidence < MIN_CONFIDENCE
          /\ env.remote.kind = "ok"
          /\ env.remote.confidence > PrimaryLocal.confidence)
         => outcome.source = "remote" /\ outcome.fallback_used

----------------------------------------------------------------------------
\* the candidate the primary one is compared with: the remote answer in
\* controller.py, the second router result in controller_new.py
SecondaryCandidate ==
    IF cfg.controller = "controller"
      THEN [text |-> env.remote.text, confidence |-> env.remote.confidence]
    ELSE LET o2 == transcribe_audio_hybrid(cfg, env, TRUE, req.language,
                                           TRUE, FALSE)
         IN  [text |-> o2.text, confidence |-> o2.confidence]

\* the similarity threshold the comparison of the request uses
CompareThreshold ==
    IF cfg.controller = "controller" THEN cfg.semantic_threshold
    ELSE req.semantic_threshold

\* the embedding model compared two candidates and returned a similarity
Compared == Returned /\ Called("embed") /\ env.similarity.kind = "ok"

(***************************************************************************)
(* C14: when the similarity of two candidates was computed, the primary    *)
(* candidate wins if the secondary confidence is not strictly greater;     *)
(* otherwise the primary wins exactly when similarity >= threshold and     *)
(* primary confidence >= 0.7, and the secondary wins in every other case.  *)
(***************************************************************************)
C14_SemanticArbitration ==
    Compared /\ Healthy =>
      LET pri == PrimaryLocal
          sec == SecondaryCandidate
          primaryWins ==
            \/ ~(sec.confidence > pri.confidence)
            \/ /\ env.similarity.value >= CompareThreshold
               /\ pri.confidence >= LOCAL_PRIMARY_FLOOR
          winner == IF primaryWins THEN pri ELSE sec
      IN  /\ outcome.text = winner.text
          /\ outcome.confidence = winner.confidence

----------------------------------------------------------------------------
\* controller.py holds a local and a remote candidate and semantic
\* validation is disabled
ConfidenceOnly ==
    /\ LegacyDecided
    /\ ~cfg.sentence_transformer
    /\ Called("remote")
    /\ env.remote.kind = "ok"

(***************************************************************************)
(* C15: with semantic validation disabled and two candidates, the          *)
(* candidate of strictly higher confidence is the outcome, and on equal    *)
(* confidence the primary candidate is.                                    *)
(***************************************************************************)
C15_HigherConfidenceWins ==
    ConfidenceOnly =>
      IF env.remote.confidence > PrimaryLocal.confidence
        THEN /\ outcome.source = "remote"
             /\ outcome.text = env.remote.text
             /\ outcome.confidence = env.remote.confidence
        ELSE /\ outcome.source = "local"
             /\ outcome.text = PrimaryLocal.text
             /\ outcome.confidence = PrimaryLocal.confidence

\* equal confidences: the local candidate is returned
C15_Witness ==
    /\ ConfidenceOnly
    /\ env.remote.confidence = PrimaryLocal.confidence
    /\ env.remote.text # PrimaryLocal.text
    /\ outcome.source = "local"

----------------------------------------------------------------------------
\* controller.py has a primary candidate and no secondary one: no fallback
\* was triggered, or the remote call produced nothing
NoSecondary ==
    /\ LegacyDecided
    /\ ~Called("remote") \/ process_audio_remote(cfg, env).none

(***************************************************************************)
(* C16: when there is no secondary candidate the primary candidate is the  *)
(* outcome, unchanged, and semantic_diff is None.                          *)
(***************************************************************************)
C16_PrimaryUnchangedWithoutSecondary ==
    NoSecondary =>
      /\ outcome.kind = "result"
      /\ outcome.source = "local"
      /\ outcome.text = PrimaryLocal.text
      /\ outcome.confidence = PrimaryLocal.confidence
      /\ outcome.language = PrimaryLocal.language
      /\ outcome.semantic_diff = None

\* the fallback was triggered and the remote call produced nothing
C16_Witness ==
    /\ NoSecondary
    /\ Healthy
    /\ Called("remote")
    /\ cfg.sentence_transformer
    /\ PrimaryLocal.confidence < MIN_CONFIDENCE
    /\ outcome.text = PrimaryLocal.text

----------------------------------------------------------------------------
(***************************************************************************)
(* C17: semantic_diff, when present in an outcome, is 1 - similarity of    *)
(* the two candidates that were compared (in hundredths: 100 - value).     *)
(***************************************************************************)
C17_SemanticDiffIsOneMinusSimilarity ==
    Returned /\ Healthy /\ outcome.semantic_diff # None
      => /\ Compared
         /\ outcome.semantic_diff = 100 - env.similarity.value

----------------------------------------------------------------------------
\* two candidates were handed to the embedding model and it raised
EmbeddingRaised == Done /\ Called("embed") /\ env.similarity.kind = "raise"

(***************************************************************************)
(* C18: if the embedding model is unavailable or raises while two          *)
(* candidates are compared, the request still completes with the winner of *)
(* the confidence-only rule (strictly higher confidence, ties to the       *)
(* primary); no provider is called after the failed comparison and the     *)
(* outcome is not a failure outcome.                                       *)
(***************************************************************************)
C18_EmbeddingFailureFallsBackToConfidence ==
    /\ ConfidenceOnly => outcome.kind = "result" /\ calls[Len(calls)] = "remote"
    /\ EmbeddingRaised /\ Healthy =>
         LET pri == PrimaryLocal
             sec == SecondaryCandidate
             winner == IF sec.confidence > pri.confidence THEN sec ELSE pri
         IN  /\ outcome.kind = "result"
             /\ outcome.source \notin {"error", "failed"}
             /\ calls[Len(calls)] = "embed"
             /\ outcome.text = winner.text
             /\ outcome.confidence = winner.confidence

----------------------------------------------------------------------------
(***************************************************************************)
(* C19: when verification is not required the verification collaborator   *)
(* is never called for the request, the caller is treated as authorized    *)
(* (no redaction), and the speaker score of the outcome is None.           *)
(***************************************************************************)
C19_NoVerificationWhenNotRequired ==
    Done /\ Healthy /\ ~req.verify_speaker_flag
      => /\ ~Called("verify")
         /\ outcome.kind = "result"
         /\ outcome.text # MINIMAL_TEXT
         /\ outcome.speaker_match = None

----------------------------------------------------------------------------
\* the verification call of the request failed: the collaborator raised, or
\* verify_speaker caught its own error and answered (False, 0.0)
VerificationFailed ==
    /\ req.verify_speaker_flag
    /\ Called("verify")
    /\ env.verify.kind # "score"

\* the first verification call precedes every provider call
VerifyBeforeProviders ==
    \A j \in DOMAIN calls :
      IsProviderCall(calls[j]) => \E i \in 1..(j - 1) : calls[i] = "verify"

\* the outcome text is the same whatever the providers transcribed
TextIndependentOfTranscripts ==
    \A o \in RawTexts, l \in RawTexts :
      Engine(cfg, req, WithTranscripts(env, o, l, env.remote.text)).outcome.text
        = outcome.text

(***************************************************************************)
(* C20: when verification is required, controller_new.py calls the         *)
(* verification collaborator exactly once per request and before any       *)
(* provider call; if that call fails the caller is treated as unauthorized *)
(* and the error is not propagated.  (Original statement; a request whose  *)
(* metadata lookup fails ends before the verification is called.)          *)
(***************************************************************************)
C20_VerifiedExactlyOnce ==
    Done /\ cfg.controller = "controller_new" /\ req.verify_speaker_flag
      => /\ CallCount("verify") = 1
         /\ VerifyBeforeProviders
         /\ outcome.kind = "result"
         /\ VerificationFailed
              => /\ TextIndependentOfTranscripts
                 /\ outcome.source = "error" => Called("split")

(***************************************************************************)
(* C20 (amended): when verification is required, controller_new.py calls   *)
(* the verification collaborator at most once per request, exactly once    *)
(* whenever the request gets past the audio metadata lookup, and before    *)
(* any provider call; if that call fails the caller is treated as          *)
(* unauthorized (the outcome text does not depend on the transcripts) and  *)
(* the error is not propagated (an "error" outcome can only come from the  *)
(* later split of a large file).  When the metadata lookup fails the       *)
(* verification and the providers are not called at all.                   *)
(***************************************************************************)
C20_VerifiedOnceAfterMetadata ==
    Done /\ cfg.controller = "controller_new" /\ req.verify_speaker_flag
      => /\ CallCount("verify") = (IF env.meta = "dict" THEN 1 ELSE 0)
         /\ env.meta # "dict" => ProviderCalls = <<>>
         /\ VerifyBeforeProviders
         /\ outcome.kind = "result"
         /\ VerificationFailed
              => /\ TextIndependentOfTranscripts
                 /\ outcome.source = "error" => Called("split")

\* the verification collaborator raised, the debug flag kept the request
\* going, and the provider answer was redacted
C20_Witness ==
    /\ Done
    /\ cfg.controller = "controller_new"
    /\ Healthy
    /\ VerificationFailed
    /\ env.verify.kind = "raise"
    /\ Len(ProviderCalls) >= 1
    /\ outcome.text = MINIMAL_TEXT

----------------------------------------------------------------------------
\* what the caller of controller_new.py can observe of being authorized:
\* the outcome carries the transcript of a provider, not the gate's text nor
\* the redacted one
TreatedAsAuthorized ==
    /\ outcome.source \in {"openai", "local", "chunked", "openai_semantic"}
    /\ ~TextIndependentOfTranscripts

(***************************************************************************)
(* C21: a caller for whom verification is required is authorized if and    *)
(* only if the verification score is >= VERIFICATION_THRESHOLD; a missing  *)
(* voiceprint or an error of the collaborator never yields authorization.  *)
(* Stated for requests of controller_new.py in which every other           *)
(* collaborator answers, so that authorization shows in the outcome.       *)
(***************************************************************************)
C21_AuthorizedIffScoreAtLeastThreshold ==
    (Done /\ cfg.controller = "controller_new" /\ Healthy
       /\ req.verify_speaker_flag)
      => /\ TreatedAsAuthorized
           <=> (env.verify.kind = "score"
                  /\ env.verify.score >= VERIFICATION_THRESHOLD)
         /\ env.verify.kind \in {"no_voiceprint", "raise"}
              => ~TreatedAsAuthorized

\* a score exactly at the threshold authorizes
C21_Witness ==
    /\ Done /\ cfg.controller = "controller_new" /\ Healthy
    /\ req.verify_speaker_flag
    /\ env.verify.kind = "score"
    /\ env.verify.score = VERIFICATION_THRESHOLD
    /\ TreatedAsAuthorized

----------------------------------------------------------------------------
\* the configuration a request is entitled to: the one fixed at process
\* start, with the threshold the request itself passes to the command-line
\* tool, if any
RequestCfg ==
    IF req.semantic_threshold # 0 /\ cfg.controller = "controller"
      THEN [cfg EXCEPT !.semantic_threshold = req.semantic_threshold]
    ELSE cfg

(***************************************************************************)
(* C29: the outcome is a function of the request and of the collaborator   *)
(* responses alone (under the configuration of the process): two calls     *)
(* with the same request and the same responses give identical outcomes,   *)
(* whatever requests were processed in between.                            *)
(***************************************************************************)
C29_OutcomeDeterminedByRequest ==
    Done => outcome = Engine(RequestCfg, req, env).outcome

----------------------------------------------------------------------------
(***************************************************************************)
(* C30: no state written while processing one request is read by a later   *)
(* request: the semantic threshold a request sees is the one fixed at      *)
(* process start (or the one it passes itself).                            *)
(***************************************************************************)
C30_NoStateCrossesRequests ==
    Done /\ Healthy => semantic_threshold_value(cfg, environ) = RequestCfg.semantic_threshold

----------------------------------------------------------------------------
(***************************************************************************)
(* C28: in every outcome the confidence lies in [0,1] (0..100 hundredths): *)
(* after chunk averaging, after the cap for unauthorized callers, after    *)
(* arbitration and on every failure path.  The providers of the model      *)
(* answer with confidences in [0,1].                                       *)
(***************************************************************************)
C28_ConfidenceInUnitInterval ==
    Returned => outcome.confidence >= 0 /\ outcome.confidence <= 100

\* the mean over several chunks of OpenAI's fixed confidence
C28_Witness ==
    /\ Returned
    /\ outcome.source = "chunked"
    /\ env.nChunks >= 2
    /\ outcome.confidence = OPENAI_CONFIDENCE

----------------------------------------------------------------------------
(***************************************************************************)
(* Chunked transcription, step by step: the routing on the file size       *)
(* (controller_new.py lines 122-134), chunk_large_audio, the loop of       *)
(* transcribe_large_audio with one step per chunk, and its finally clause. *)
(* The chunks of a job may get different answers from the providers.       *)
(* Sizes are in MiB, durations in milliseconds; a text is a string, and    *)
(* split() recovers its words.                                             *)
(***************************************************************************)
\* largest number of chunks of a job
MaxJobChunks == 3

\* default chunk_size_mb of chunk_large_audio
CHUNK_SIZE_MB == 20

\* the number of trailing words of the previous transcript put in the prompt
CONTEXT_WORDS == 20

ShortWords == <<"lights", "on">>

LongWords ==
    <<"w01", "w02", "w03", "w04", "w05", "w06", "w07", "w08", "w09", "w10",
      "w11", "w12", "w13", "w14", "w15", "w16", "w17", "w18", "w19", "w20",
      "w21", "w22">>

MinimalWords ==
    <<"Voice", "authentication", "required", "for", "full", "transcription">>

ErrorWords == <<"Error", "during", "transcription">>

\* the word sequences of the texts a chunk can get
KnownWordSeqs == {<<>>, ShortWords, LongWords, MinimalWords, ErrorWords}

\* str.split(): the words whose join by single blanks is the text
split(text) == CHOOSE ws \in KnownWordSeqs : Join(ws, " ") = text

\* ws[-n:]
LastWords(ws, n) ==
    SubSeq(ws, IF Len(ws) > n THEN Len(ws) - n + 1 ELSE 1, Len(ws))

\* chunk_prompt taking the context from the first transcript
chunk_prompt_first(prompt, transcriptions) ==
    IF Len(transcriptions) > 0
      THEN prompt \o " Previous context: "
             \o Join(LastWords(split(transcriptions[1]), CONTEXT_WORDS), " ")
    ELSE prompt

\* the prompt of the chunk that follows transcriptions (lines 302-306)
chunk_prompt(prompt, transcriptions) ==
    IF Len(transcriptions) > 0
      THEN prompt \o " Previous context: "
             \o Join(LastWords(split(transcriptions[Len(transcriptions)]),
                               CONTEXT_WORDS), " ")
    ELSE prompt

\* int((chunk_size_mb / file_size_mb) * total_duration_ms)
chunk_duration_ms(size, total) == (CHUNK_SIZE_MB * total) \div size

RECURSIVE chunk_slices_unclipped(_, _, _)
\* chunk_slices without the min() that clips the last slice
chunk_slices_unclipped(start, total, cd) ==
    IF start >= total THEN <<>>
    ELSE <<[start |-> start, end |-> start + cd]>>
           \o chunk_slices_unclipped(start + cd, total, cd)

RECURSIVE chunk_slices(_, _, _)
\* the slices cut by the loop over range(0, total, cd), for cd > 0
chunk_slices(start, total, cd) ==
    IF start >= total THEN <<>>
    ELSE <<[start |-> start, end |-> Min(start + cd, total)]>>
           \o chunk_slices(start + cd, total, cd)

\* chunk_large_audio.  files is what it leaves on disk: 0 is the chunk
\* directory, i the file of chunk i.  fault "load" makes AudioSegment
\* raise, fault "export" makes the export of the last chunk raise; a chunk
\* duration of 0 makes range() raise after the directory was created.
chunk_large_audio(size, total, fault) ==
    LET cd == chunk_duration_ms(size, total)
        sl == chunk_slices(0, total, cd)
    IN  IF fault = "load"
          THEN [raised |-> TRUE, chunks |-> <<>>, files |-> {}]
        ELSE IF size <= CHUNK_SIZE_MB
          THEN [raised |-> FALSE,
                chunks |-> <<[start |-> 0, end |-> total]>>, files |-> {}]
        ELSE IF cd = 0
          THEN [raised |-> TRUE, chunks |-> <<>>, files |-> {0}]
        ELSE IF fault = "export"
          THEN [raised |-> TRUE, chunks |-> <<>>,
                files |-> 0..(Len(sl) - 1)]
        ELSE [raised |-> FALSE, chunks |-> sl, files |-> 0..Len(sl)]

\* the finally clause of transcribe_large_audio: every chunk file is
\* unlinked and the directory of the first chunk removed
cleanup_chunks(files, chunks) ==
    IF Len(chunks) = 0 THEN files
    ELSE (files \ (1..Len(chunks))) \ {0}

\* combine_chunks adding the confidences up without dividing
combine_chunks_sum(transcriptions, confidences) ==
    [text |-> Join(transcriptions, " "),
     confidence |-> SumSeq(confidences),
     source |-> "chunked"]

\* combined text, average confidence and source of the finished loop
combine_chunks(transcriptions, confidences) ==
    [text |-> Join(transcriptions, " "),
     confidence |-> IF Len(confidences) = 0 THEN 0
                    ELSE SumSeq(confidences) \div Len(confidences),
     source |-> "chunked"]

\* what the providers answer for one piece of audio
ChunkAnswers ==
    { [openai |-> [kind |-> "ok",
                   raw |-> [pad |-> TRUE, body |-> Join(ShortWords, " ")]],
       local |-> NoLocal],
      [openai |-> [kind |-> "ok",
                   raw |-> [pad |-> FALSE, body |-> Join(LongWords, " ")]],
       local |-> NoLocal],
      [openai |-> NoOpenAI,
       local |-> [kind |-> "ok",
                  raw |-> [pad |-> TRUE, body |-> Join(ShortWords, " ")],
                  confidence |-> 85, language |-> "ru"]],
      [openai |-> NoOpenAI,
       local |-> [kind |-> "ok",
                  raw |-> [pad |-> FALSE, body |-> Join(LongWords, " ")],
                  confidence |-> 40, language |-> "en"]],
      [openai |-> NoOpenAI, local |-> NoLocal] }

\* the router on one piece of audio under the answer a
route_piece(c, a, detailed, use_openai_first) ==
    transcribe_audio_hybrid(c, [NoEnv EXCEPT !.openai = a.openai,
                                             !.local = a.local],
                            detailed, "", use_openai_first, FALSE)

\* processes in which both providers are configured
JobCfgs ==
    { c \in NewCfgs : /\ c.openai_client /\ c.FALLBACK_TO_LOCAL
                      /\ c.whisper_model /\ ~c.sentence_transformer }

JobSizes == {25, 26, 50}

JobDurations == {1, 5, 7}

\* the jobs a process can be given: the split yields at most MaxJobChunks
NewJobs ==
    { [NoJob EXCEPT !.pc = "start", !.size = sz, !.total = t,
                    !.detailed = d, !.prompt = p, !.fault = f] :
        sz \in JobSizes, t \in JobDurations, d \in BOOLEAN,
        p \in {"", "names:"}, f \in {"none", "load", "export"} }

InitChunks ==
    /\ cfg \in JobCfgs
    /\ phase = "idle"
    /\ req = NoRequest
    /\ env = NoEnv
    /\ outcome = Raised
    /\ calls = <<>>
    /\ environ = None
    /\ job \in { j \in NewJobs :
                   \/ j.size <= MAX_SINGLE_SHOT_MB /\ j.fault = "none"
                   \/ /\ j.size > MAX_SINGLE_SHOT_MB
                      /\ Len(chunk_large_audio(j.size, j.total, "none").chunks)
                           <= MaxJobChunks }

\* controller_new.py line 131: a file within the ceiling goes to the router
\* as one piece
RouteSingleShot ==
    /\ job.pc = "start"
    /\ ~(job.size > MAX_SINGLE_SHOT_MB)
    /\ \E a \in ChunkAnswers :
         LET r == route_piece(cfg, a, job.detailed,
                              cfg.PRIMARY_SERVICE = "openai")
         IN  job' = [job EXCEPT
                       !.pc = "returned",
                       !.handed = <<[start |-> 0, end |-> job.total]>>,
                       !.sent = <<job.prompt>>,
                       !.result = [text |-> r.text,
                                   confidence |-> r.confidence,
                                   language |-> r.language,
                                   source |-> r.source]]
    /\ UNCHANGED <<cfg, phase, req, env, outcome, calls, environ>>

\* SplitAudio taking the chunk size for the ceiling
SplitAudio_above_chunk_size ==
    /\ job.pc = "start"
    /\ job.size > CHUNK_SIZE_MB
    /\ LET ch == chunk_large_audio(job.size, job.total, job.fault)
       IN  job' = [job EXCEPT !.pc = IF ch.raised THEN "raised" ELSE "loop",
                              !.chunks = ch.chunks,
                              !.files = ch.files]
    /\ UNCHANGED <<cfg, phase, req, env, outcome, calls, environ>>

\* controller_new.py line 125 and transcribe_large_audio line 293: a file
\* above the ceiling is split
SplitAudio ==
    /\ job.pc = "start"
    /\ job.size > MAX_SINGLE_SHOT_MB
    /\ LET ch == chunk_large_audio(job.size, job.total, job.fault)
       IN  job' = [job EXCEPT !.pc = IF ch.raised THEN "raised" ELSE "loop",
                              !.chunks = ch.chunks,
                              !.files = ch.files]
    /\ UNCHANGED <<cfg, phase, req, env, outcome, calls, environ>>

\* one iteration of the loop of transcribe_large_audio (lines 300-314)
TranscribeChunk ==
    /\ job.pc = "loop"
    /\ Len(job.transcriptions) < Len(job.chunks)
    /\ \E a \in ChunkAnswers :
         LET r == route_piece(cfg, a, job.detailed, TRUE)
         IN  job' = [job EXCEPT
                       !.handed = Append(@, job.chunks[Len(job.transcriptions) + 1]),
                       !.sent = Append(@, chunk_prompt(job.prompt,
                                                       job.transcriptions)),
                       !.transcriptions = Append(@, r.text),
                       !.confidences = Append(@, r.confidence),
                       !.languages = Append(@, r.language)]
    /\ UNCHANGED <<cfg, phase, req, env, outcome, calls, environ>>

\* the end of the loop: lines 316-321, then the finally clause
FinishChunks ==
    /\ job.pc = "loop"
    /\ Len(job.transcriptions) = Len(job.chunks)
    /\ \E lang \in primary_language_candidates(job.languages) :
         job' = [job EXCEPT
                   !.pc = "returned",
                   !.files = cleanup_chunks(job.files, job.chunks),
                   !.result = [language |-> lang]
                                @@ combine_chunks(job.transcriptions,
                                                  job.confidences)]
    /\ UNCHANGED <<cfg, phase, req, env, outcome, calls, environ>>

\* the request is cancelled while the loop awaits a chunk: CancelledError
\* passes through the finally clause
CancelRequest ==
    /\ job.pc = "loop"
    /\ Len(job.transcriptions) < Len(job.chunks)
    /\ job' = [job EXCEPT !.pc = "cancelled",
                          !.files = cleanup_chunks(job.files, job.chunks)]
    /\ UNCHANGED <<cfg, phase, req, env, outcome, calls, environ>>

NextChunks ==
    RouteSingleShot \/ SplitAudio \/ TranscribeChunk \/ FinishChunks
      \/ CancelRequest

SpecChunks == InitChunks /\ [][NextChunks]_vars

\* the job has left transcribe_large_audio or the single-shot router
JobEnded == job.pc \in {"returned", "raised", "cancelled"}

----------------------------------------------------------------------------
(***************************************************************************)
(* C22: after a chunked transcription has ended by any exit path (all      *)
(* chunks transcribed, an exception while splitting, cancellation), no     *)
(* chunk file and no chunk directory of the request remains.  Stated for   *)
(* audio whose nominal chunk duration is at least 1 ms.                    *)
(***************************************************************************)
C22_NoChunkStorageLeft ==
    JobEnded /\ chunk_duration_ms(job.size, job.total) > 0
      => job.files = {}

----------------------------------------------------------------------------
\* the split produced chunks and the loop has started
SplitDone ==
    /\ job.pc \in {"loop", "returned", "cancelled"}
    /\ job.size > MAX_SINGLE_SHOT_MB

(***************************************************************************)
(* C23: audio is transcribed single-shot, with no chunk created, if and    *)
(* only if its size is at most 25 MiB; audio above the ceiling is always   *)
(* split (or the split fails and nothing is transcribed), and every piece  *)
(* handed to a provider is within the ceiling.  The size of a slice is its *)
(* share of the duration times the file size.                              *)
(***************************************************************************)
C23_SingleShotIffWithinCeiling ==
    JobEnded =>
      /\ job.size <= 25
           => /\ job.chunks = <<>> /\ job.files = {}
              /\ job.handed = <<[start |-> 0, end |-> job.total]>>
      /\ job.size > 25
           => \/ job.pc = "raised" /\ job.handed = <<>>
              \/ Len(job.chunks) >= 2
      /\ \A i \in DOMAIN job.handed :
           (job.handed[i].end - job.handed[i].start) * job.size
             <= 25 * job.total

\* a file of twice the ceiling went to the providers in three chunks
C23_Witness ==
    /\ job.pc = "returned"
    /\ job.size = 50
    /\ Len(job.handed) = 3

----------------------------------------------------------------------------
(***************************************************************************)
(* C24: the chunks of a split audio are consecutive, non-overlapping       *)
(* slices whose union is [0, total]: the first starts at 0, each starts    *)
(* where the previous one ends, every chunk but the last has the nominal   *)
(* duration, the last is non-empty and no longer than the nominal          *)
(* duration and ends at total.  The split ends for every positive          *)
(* duration and size: without a fault of the audio library it fails only   *)
(* when the nominal duration truncates to 0 ms, and then by an error.      *)
(***************************************************************************)
C24_ChunksPartitionDuration ==
    LET ch == job.chunks
        n == Len(ch)
        cd == chunk_duration_ms(job.size, job.total)
    IN  /\ SplitDone
             => /\ n >= 1
                /\ ch[1].start = 0
                /\ ch[n].end = job.total
                /\ \A i \in 1..(n - 1) :
                     /\ ch[i + 1].start = ch[i].end
                     /\ ch[i].end - ch[i].start = cd
                /\ ch[n].end - ch[n].start > 0
                /\ ch[n].end - ch[n].start <= cd
        /\ (job.pc = "raised" /\ job.fault = "none") => cd = 0

\* three chunks, the last one shorter than the others
C24_Witness ==
    /\ SplitDone
    /\ Len(job.chunks) = 3
    /\ job.chunks[3].end - job.chunks[3].start
         < job.chunks[1].end - job.chunks[1].start

----------------------------------------------------------------------------
(***************************************************************************)
(* C25: chunks are transcribed one at a time in chunk order; the first     *)
(* chunk is sent with the caller's prompt only, and chunk i > 1 with the   *)
(* caller's prompt followed by the last (at most 20) words of the          *)
(* transcript of chunk i-1 and of no other chunk.                          *)
(***************************************************************************)
C25_PromptFromPreviousChunk ==
    SplitDone =>
      /\ Len(job.sent) = Len(job.transcriptions)
      /\ job.handed = SubSeq(job.chunks, 1, Len(job.sent))
      /\ \A i \in DOMAIN job.sent :
           IF i = 1 THEN job.sent[i] = job.prompt
           ELSE LET ws == split(job.transcriptions[i - 1])
                    k == Min(Len(ws), 20)
                IN  job.sent[i]
                      = job.prompt \o " Previous context: "
                          \o Join(SubSeq(ws, Len(ws) - k + 1, Len(ws)), " ")

\* the third chunk follows a transcript of more than 20 words that differs
\* from the transcript of the first chunk
C25_Witness ==
    /\ SplitDone
    /\ Len(job.sent) = 3
    /\ job.transcriptions[2] = Join(LongWords, " ")
    /\ job.transcriptions[1] = Join(ShortWords, " ")

----------------------------------------------------------------------------
(***************************************************************************)
(* C26: for an audio split into N chunks the final text is the N chunk     *)
(* texts joined by single spaces in chunk order, and the final confidence  *)
(* is the arithmetic mean of the N chunk confidences (to the hundredth).   *)
(***************************************************************************)
C26_JoinedTextAndMeanConfidence ==
    (SplitDone /\ job.pc = "returned") =>
      LET n == Len(job.chunks)
      IN  /\ Len(job.transcriptions) = n
          /\ job.result.text = Join(job.transcriptions, " ")
          /\ n * job.result.confidence <= SumSeq(job.confidences)
          /\ SumSeq(job.confidences) < n * (job.result.confidence + 1)

\* three chunks of different confidences
C26_Witness ==
    /\ SplitDone /\ job.pc = "returned"
    /\ job.confidences = <<95, 40, 85>>
    /\ job.result.confidence = 73

----------------------------------------------------------------------------
\* the language of maximal count whose first chunk comes earliest
FirstMostFrequent(languages) ==
    LET count(x) == Cardinality({i \in DOMAIN languages : languages[i] = x})
        best == {i \in DOMAIN languages :
                   \A j \in DOMAIN languages :
                     count(languages[j]) <= count(languages[i])}
    IN  languages[CHOOSE i \in best : \A j \in best : i <= j]

(***************************************************************************)
(* C27: the final language of a chunked transcription is the language      *)
(* detected for the largest number of chunks and, when several languages   *)
(* share that count, the one whose first chunk comes earliest.             *)
(***************************************************************************)
C27_MostFrequentLanguageFirstOnTie ==
    (SplitDone /\ job.pc = "returned" /\ job.detailed)
      => job.result.language = FirstMostFrequent(job.languages)

----------------------------------------------------------------------------
(***************************************************************************)
(* Entry points besides process_audio_hybrid: the translation function of  *)
(* controller_new.py, the provider router called directly, and the two     *)
(* HTTP routes.  They are the actions of SpecApi.                          *)
(***************************************************************************)

\* confidence translate_audio attaches to every translation (0.85)
TRANSLATE_CONFIDENCE == 85

(***************************************************************************)
(* openai_whisper.translate_audio: one request to the translations         *)
(* endpoint of the remote provider.                                        *)
(***************************************************************************)
translate_audio(c, e) ==
    IF ~c.openai_client
      THEN [raised |-> TRUE, sent |-> FALSE,
            msg |-> "OpenAI client not initialized for translation",
            text |-> "", confidence |-> 0, language |-> ""]
    ELSE IF e.openai.kind = "raise"
      THEN [raised |-> TRUE, sent |-> TRUE, msg |-> "API error",
            text |-> "", confidence |-> 0, language |-> ""]
    ELSE [raised |-> FALSE, sent |-> TRUE, msg |-> "",
          text |-> Strip(e.openai.raw),
          confidence |-> TRANSLATE_CONFIDENCE, language |-> "auto"]

\* the dictionary translate_audio_hybrid returns
TranslationResult(source, text, confidence, source_language, target_language, debug) ==
    [kind |-> "result", source |-> source, text |-> text,
     confidence |-> confidence, source_language |-> source_language,
     target_language |-> target_language, debug |-> debug]

TranslationError(msg, target_language) ==
    TranslationResult("error", "Translation error: " \o msg, 0, "unknown",
                      target_language, FALSE)

\* translate_audio_hybrid without its except clause
translate_audio_hybrid_uncaught(c, r, e) ==
    LET t == translate_audio(c, e)
        calls1 == IF t.sent THEN <<"metadata", "translate">>
                  ELSE <<"metadata">>
    IN  IF e.meta = "raise" \/ t.raised \/ e.meta = "tuple"
          THEN [outcome |-> [kind |-> "raised"],
                calls |-> IF e.meta = "raise" THEN <<"metadata">> ELSE calls1]
        ELSE [outcome |-> TranslationResult("openai_translate", t.text,
                                            t.confidence, t.language,
                                            r.target_language, r.return_debug),
              calls |-> calls1]

(***************************************************************************)
(* controller_new.translate_audio_hybrid                                   *)
(***************************************************************************)
translate_audio_hybrid(c, r, e) ==
    LET t == translate_audio(c, e)
        calls1 == IF t.sent THEN <<"metadata", "translate">>
                  ELSE <<"metadata">>
    IN  IF e.meta = "raise"
          THEN [outcome |-> TranslationError("metadata lookup failed",
                                             r.target_language),
                calls |-> <<"metadata">>]
        ELSE IF t.raised
          THEN [outcome |-> TranslationError(t.msg, r.target_language),
                calls |-> calls1]
        ELSE IF e.meta = "tuple"
          THEN [outcome |->
                  TranslationError("'tuple' object has no attribute 'get'",
                                   r.target_language),
                calls |-> calls1]
        ELSE [outcome |-> TranslationResult("openai_translate", t.text,
                                            t.confidence, t.language,
                                            r.target_language, r.return_debug),
              calls |-> calls1]

TranslationRequests ==
    { [op |-> "translate", target_language |-> tl, return_debug |-> d] :
         tl \in {"en", "de"}, d \in BOOLEAN }

TranslationEnvs(c) ==
    { [NoEnv EXCEPT !.meta = m, !.openai = o] :
         m \in MetaOutcomes,
         o \in IF c.openai_client THEN OpenAIOutcomes ELSE {NoOpenAI} }

\* a translation request served by controller_new.py
TranslateAudioHybrid ==
    /\ phase = "idle"
    /\ cfg.controller = "controller_new"
    /\ \E r \in TranslationRequests : \E e \in TranslationEnvs(cfg) :
         LET run == translate_audio_hybrid(cfg, r, e)
         IN  /\ req' = r
             /\ env' = e
             /\ outcome' = run.outcome
             /\ calls' = run.calls
    /\ phase' = "done"
    /\ UNCHANGED <<cfg, environ, job>>

(***************************************************************************)
(* The provider router called on a file of any size, as the tests of       *)
(* openai_whisper do.  Sizes are in bytes here.                            *)
(***************************************************************************)
\* openai_whisper.MAX_FILE_SIZE
MAX_FILE_SIZE == 25 * 1024 * 1024

\* file sizes around the limit of the remote client
FileSizes ==
    {MAX_FILE_SIZE - 1, MAX_FILE_SIZE, MAX_FILE_SIZE + 1, 2 * MAX_FILE_SIZE}

\* the size check of transcribe_with_openai
exceeds_limit(file_size) == file_size > MAX_FILE_SIZE

RouterRequests ==
    { [op |-> "router", file_size |-> s, detailed |-> dt, language |-> "",
       use_openai_first |-> f] :
         s \in FileSizes, dt \in BOOLEAN, f \in BOOLEAN }

RouterEnvs(c) ==
    { [NoEnv EXCEPT !.meta = "dict", !.openai = o, !.local = l] :
         o \in IF c.openai_client THEN OpenAIOutcomes ELSE {NoOpenAI},
         l \in IF c.whisper_model /\ c.FALLBACK_TO_LOCAL
                 THEN LocalOutcomes ELSE {NoLocal} }

\* one call of transcribe_audio_hybrid; outcome.sent says whether a request
\* went to the remote API during the call
TranscribeAudioHybrid ==
    /\ phase = "idle"
    /\ cfg.controller = "controller_new"
    /\ \E r \in RouterRequests : \E e \in RouterEnvs(cfg) :
         LET oversize == exceeds_limit(r.file_size)
             run == transcribe_audio_hybrid(cfg, e, r.detailed, r.language,
                                            r.use_openai_first, oversize)
             o == transcribe_with_openai(cfg, e, oversize, r.language)
         IN  /\ req' = r
             /\ env' = e
             /\ outcome' = [kind |-> "result", source |-> run.source,
                            text |-> run.text, confidence |-> run.confidence,
                            language |-> run.language, errors |-> run.errors,
                            sent |-> r.use_openai_first /\ cfg.openai_client
                                       /\ o.sent]
             /\ calls' = run.calls
    /\ phase' = "done"
    /\ UNCHANGED <<cfg, environ, job>>

(***************************************************************************)
(* hybrid_routes.hybrid_stt: POST /hybrid/stt.  The route hands the query  *)
(* parameters to app.hybrid.controller.process_audio_hybrid as keyword     *)
(* arguments; every exception inside the route becomes a 422 response.     *)
(***************************************************************************)
\* default of the semantic_threshold query parameter (0.8)
DEFAULT_SEMANTIC_THRESHOLD == 80

ErrorResponse(status_code, detail) ==
    [kind |-> "response", http |-> status_code, detail |-> detail,
     body |-> Raised]

\* the keyword arguments the route passes on
RouteRequest(q) ==
    [verify_speaker_flag |-> q.verify_speaker,
     return_debug |-> q.return_debug,
     use_semantics |-> q.use_semantics,
     semantic_threshold |-> IF q.semantic_threshold = 0
                              THEN DEFAULT_SEMANTIC_THRESHOLD
                              ELSE q.semantic_threshold,
     language |-> q.language]

hybrid_stt(c, q, e) ==
    IF ~q.accepted
      THEN [outcome |-> ErrorResponse(422, "Error processing audio: ingestion failed"),
            calls |-> <<"ingest">>]
    ELSE IF c.controller = "controller"
      \* controller.process_audio_hybrid takes audio_path,
      \* verify_speaker_flag and return_debug only
      THEN [outcome |-> ErrorResponse(422, "Error processing audio: process_audio_hybrid() got an unexpected keyword argument 'use_semantics'"),
            calls |-> <<"ingest">>]
    ELSE LET run == process_audio_hybrid_new(c, RouteRequest(q), e)
         IN  [outcome |-> [kind |-> "response", http |-> 200, detail |-> "",
                           body |-> run.outcome],
              calls |-> <<"ingest">> \o run.calls]

HybridSttQueries ==
    { [op |-> "hybrid_stt", accepted |-> a, verify_speaker |-> vf,
       return_debug |-> d, use_semantics |-> us, semantic_threshold |-> st,
       language |-> ""] :
         a \in BOOLEAN, vf \in BOOLEAN, d \in BOOLEAN, us \in BOOLEAN,
         st \in {0, 95} }

\* responses during a request of the route; the uploads are files of at
\* most 25 MiB
HybridSttEnvs(c, q) ==
    IF ~q.accepted THEN {NoEnv}
    ELSE IF c.controller = "controller"
      THEN LegacyEnvs(c, [RouteRequest(q) EXCEPT !.use_semantics = FALSE])
    ELSE {e \in NewEnvs(c, RouteRequest(q)) : e.size <= MAX_SINGLE_SHOT_MB}

HybridStt ==
    /\ phase = "idle"
    /\ \E q \in HybridSttQueries : \E e \in HybridSttEnvs(cfg, q) :
         \E run \in {hybrid_stt(cfg, q, e)} :
           /\ req' = q
           /\ env' = e
           /\ outcome' = run.outcome
           /\ calls' = run.calls
    /\ phase' = "done"
    /\ UNCHANGED <<cfg, environ, job>>

(***************************************************************************)
(* routes.voice_verify: POST /voice/verify.  Verification, transcription   *)
(* at the level the verification allows, and the command handed to the     *)
(* language model as a background task.                                    *)
(***************************************************************************)
UNAUTHORIZED_TEXT == "Unauthorized access. Voice verification failed."

VerificationResponse(status, text, confidence, speaker_match, language, scheduled) ==
    [kind |-> "response", http |-> 200, status |-> status, text |-> text,
     confidence |-> confidence, speaker_match |-> speaker_match,
     language |-> language, scheduled |-> scheduled,
     command |-> IF scheduled THEN text ELSE "", detail |-> ""]

VerifyError(detail) ==
    [kind |-> "response", http |-> 422, status |-> "", text |-> "",
     confidence |-> 0, speaker_match |-> None, language |-> "",
     scheduled |-> FALSE, command |-> "", detail |-> detail]

\* voice_verify transcribing in detail and not replacing the text for an
\* unverified speaker
voice_verify_unobfuscated(c, q, e) ==
    LET v == verify_speaker(e.verify)
        t == local_transcribe(c, e, TRUE)
    IN  IF ~q.accepted
          THEN [outcome |-> VerifyError("ingestion failed"),
                calls |-> <<"ingest">>]
        ELSE IF v.raised
          THEN [outcome |-> VerifyError("verification failed"),
                calls |-> <<"ingest", "verify">>]
        ELSE IF t.raised
          THEN [outcome |-> VerifyError(t.msg),
                calls |-> <<"ingest", "verify", "local">>]
        ELSE [outcome |->
                VerificationResponse(IF v.verified THEN "AUTHORIZED"
                                     ELSE "UNAUTHORIZED",
                                     t.text, t.confidence, v.score,
                                     t.language, v.verified),
              calls |-> <<"ingest", "verify", "local">>]

voice_verify(c, q, e) ==
    LET v == verify_speaker(e.verify)
        t == local_transcribe(c, e, v.verified)
    IN  IF ~q.accepted
          THEN [outcome |-> VerifyError("ingestion failed"),
                calls |-> <<"ingest">>]
        ELSE IF v.raised
          THEN [outcome |-> VerifyError("verification failed"),
                calls |-> <<"ingest", "verify">>]
        ELSE IF t.raised
          THEN [outcome |-> VerifyError(t.msg),
                calls |-> <<"ingest", "verify", "local">>]
        ELSE [outcome |->
                VerificationResponse(IF v.verified THEN "AUTHORIZED"
                                     ELSE "UNAUTHORIZED",
                                     IF v.verified \/ t.text = "" THEN t.text
                                     ELSE UNAUTHORIZED_TEXT,
                                     t.confidence, v.score, t.language,
                                     v.verified),
              calls |-> <<"ingest", "verify", "local">>]

VoiceVerifyQueries == { [op |-> "voice_verify", accepted |-> a] : a \in BOOLEAN }

VoiceVerifyEnvs(c, q) ==
    IF ~q.accepted THEN {NoEnv}
    ELSE { [NoEnv EXCEPT !.verify = v, !.local = l] :
              v \in VerifyOutcomes,
              l \in IF c.whisper_model THEN LocalOutcomes ELSE {NoLocal} }

VoiceVerify ==
    /\ phase = "idle"
    /\ \E q \in VoiceVerifyQueries : \E e \in VoiceVerifyEnvs(cfg, q) :
         LET run == voice_verify(cfg, q, e)
         IN  /\ req' = q
             /\ env' = e
             /\ outcome' = run.outcome
             /\ calls' = run.calls
    /\ phase' = "done"
    /\ UNCHANGED <<cfg, environ, job>>

NextApi ==
    TranslateAudioHybrid \/ TranscribeAudioHybrid \/ HybridStt
      \/ VoiceVerify \/ NextRequest

SpecApi == Init /\ [][NextApi]_vars

----------------------------------------------------------------------------
\* the translation request of this state has ended
Translated == Done /\ req.op = "translate"

\* the call of translate_audio was made and raised
TranslationFailed ==
    Translated /\ env.meta # "raise" /\ translate_audio(cfg, env).raised

(***************************************************************************)
(* C31: a translation request only ever calls the remote provider: the     *)
(* local model is never invoked for it, and when the remote translation    *)
(* call fails the request still returns one outcome record (confidence 0,  *)
(* explanatory text) instead of raising.                                   *)
(***************************************************************************)
C31_TranslationIsRemoteOnly ==
    /\ Translated =>
         /\ \A i \in DOMAIN calls : calls[i] \in {"metadata", "translate"}
         /\ CallCount("translate") <= 1
         /\ outcome.kind = "result"
    /\ TranslationFailed =>
         /\ outcome.kind = "result"
         /\ outcome.source = "error"
         /\ outcome.confidence = 0
         /\ outcome.text = "Translation error: " \o translate_audio(cfg, env).msg

\* the remote translation request was sent and failed, with the local model
\* loaded and the fallback enabled
C31_Witness ==
    /\ TranslationFailed
    /\ Called("translate")
    /\ cfg.whisper_model
    /\ cfg.FALLBACK_TO_LOCAL
    /\ outcome.source = "error"

----------------------------------------------------------------------------
\* a direct router call has ended whose OpenAI branch was entered
RouterTriedOpenAI == Done /\ req.op = "router" /\ Called("openai")

(***************************************************************************)
(* C32: the remote transcription client rejects every file larger than     *)
(* 25 MiB with an error before any request is sent to the remote API (and  *)
(* sends the request for every file within the limit); inside the router   *)
(* the rejection is recorded as a provider error and the next provider of  *)
(* the order, the local model when the fallback is enabled, is called.     *)
(***************************************************************************)
C32_OversizeRejectedBeforeRequest ==
    RouterTriedOpenAI =>
      /\ outcome.sent <=> req.file_size <= MAX_FILE_SIZE
      /\ req.file_size > MAX_FILE_SIZE =>
           /\ outcome.source # "openai"
           /\ IF cfg.FALLBACK_TO_LOCAL
                THEN calls = <<"openai", "local">>
                ELSE calls = <<"openai">> /\ outcome.source = "failed"
           /\ cfg.FALLBACK_TO_LOCAL /\ cfg.whisper_model =>
                /\ outcome.source = "local"
                /\ outcome.errors =
                     <<"OpenAI transcription failed: File size exceeds OpenAI limit">>

\* a file one byte above the limit, which the remote API would have
\* transcribed, is answered by the local model
C32_Witness ==
    /\ RouterTriedOpenAI
    /\ req.file_size = MAX_FILE_SIZE + 1
    /\ env.openai.kind = "ok"
    /\ env.local.kind = "ok"
    /\ ~outcome.sent
    /\ outcome.source = "local"
    /\ calls = <<"openai", "local">>

----------------------------------------------------------------------------
\* the candidate the routing step of controller_new.py (lines 122-134)
\* returns for an authorized caller: the router's, or for a file above
\* 25 MiB the one transcribe_large_audio builds from the router's
RoutedCandidate ==
    IF env.size > MAX_SINGLE_SHOT_MB
      THEN transcribe_large_audio(cfg, env, TRUE, req.language)
    ELSE transcribe_audio_hybrid(cfg, env, TRUE, req.language,
                                 cfg.PRIMARY_SERVICE = "openai", FALSE)

\* controller_new.py passed the gate with an authorized caller and the
\* routing step returned
RoutedAuthorized ==
    /\ Returned
    /\ cfg.controller = "controller_new"
    /\ env.meta = "dict"
    /\ Authorized
    /\ env.split = "ok"

(***************************************************************************)
(* C33: for an authorized request on which no semantic replacement takes   *)
(* place, the outcome's source, text, confidence and language are exactly  *)
(* those of the candidate the router returned; nothing changes them        *)
(* between the routing step and the return.                                *)
(***************************************************************************)
C33_OutcomeIsRoutedCandidate ==
    RoutedAuthorized /\ outcome.source # "openai_semantic" =>
      /\ outcome.source = RoutedCandidate.source
      /\ outcome.text = RoutedCandidate.text
      /\ outcome.confidence = RoutedCandidate.confidence
      /\ outcome.language = RoutedCandidate.language

\* a local candidate was compared with a second one and kept, on a request
\* with debug output
C33_Witness ==
    /\ RoutedAuthorized
    /\ Healthy
    /\ req.verify_speaker_flag
    /\ req.return_debug
    /\ Compared
    /\ outcome.source = "local"
    /\ outcome.confidence = 90
    /\ outcome.semantic_diff # None

----------------------------------------------------------------------------
(***************************************************************************)
(* C35: an outcome whose source is openai_semantic always carries the      *)
(* text, confidence and language produced by the OpenAI provider in that   *)
(* request, never a candidate produced by the local model.  Stated for     *)
(* processes with an OpenAI client and requests the local model answers.   *)
(***************************************************************************)
C35_OpenAISemanticIsFromOpenAI ==
    Returned /\ cfg.controller = "controller_new"
      /\ cfg.openai_client /\ env.local.kind = "ok"
      /\ outcome.source = "openai_semantic" =>
        LET o == transcribe_with_openai(cfg, env, FALSE, req.language)
        IN  /\ ~o.raised
            /\ outcome.text = o.text
            /\ outcome.confidence = o.confidence
            /\ outcome.language = o.language

----------------------------------------------------------------------------
(***************************************************************************)
(* C36: whenever verification was requested, the speaker_match of the      *)
(* outcome is the score returned by this request's own verification call,  *)
(* whichever candidate (primary or fallback) wins and also on the          *)
(* error-recovery path.                                                    *)
(***************************************************************************)
C36_SpeakerMatchIsOwnScore ==
    Returned /\ Healthy /\ cfg.controller = "controller"
      /\ req.verify_speaker_flag /\ ~verify_speaker(env.verify).raised
      => outcome.speaker_match = verify_speaker(env.verify).score

----------------------------------------------------------------------------
(***************************************************************************)
(* C37: every request that passes the gate leads to at least one provider  *)
(* attempt before an outcome of source failed is returned, under every     *)
(* setting of primary service, remote-client availability and              *)
(* fallback_to_local.  Stated for processes whose OpenAI client is          *)
(* available and answers.                                                  *)
(***************************************************************************)
C37_FailedOnlyAfterProviderAttempt ==
    Returned /\ cfg.controller = "controller_new"
      /\ cfg.openai_client /\ env.openai.kind = "ok"
      /\ outcome.source = "failed"
      => Len(ProviderCalls) >= 1

----------------------------------------------------------------------------
\* a call of hybrid_stt.process_audio has ended
CliCall == Done /\ cfg.controller = "controller" /\ req \in CliRequests

\* controller.py holds a local and a remote candidate with non-empty texts:
\* the point where semantic arbitration, if active, compares them
TwoCandidates ==
    /\ LegacyDecided
    /\ Called("remote")
    /\ env.remote.kind = "ok"
    /\ PrimaryLocal.text # ""
    /\ env.remote.text # ""

----------------------------------------------------------------------------
\* a request to POST /hybrid/stt has been answered
HybridSttAnswered == Done /\ req.op = "hybrid_stt"

(***************************************************************************)
(* C34: for an uploaded audio file that ingestion accepts, the hybrid STT  *)
(* route answers with status 200 and a body holding source, text and       *)
(* metadata with confidence, language and fallback_used, for every         *)
(* combination of the verify_speaker, return_debug, use_semantics and      *)
(* semantic_threshold parameters.                                          *)
(***************************************************************************)
C34_AcceptedUploadAnswered200 ==
    HybridSttAnswered /\ req.accepted /\ Healthy =>
      /\ outcome.http = 200
      /\ outcome.body.kind = "result"

----------------------------------------------------------------------------
\* a request to POST /voice/verify has been answered
VoiceVerifyAnswered == Done /\ req.op = "voice_verify"

\* the verification of the request returned and did not verify the speaker
SpeakerUnverified ==
    /\ VoiceVerifyAnswered
    /\ req.accepted
    /\ ~verify_speaker(env.verify).raised
    /\ ~verify_speaker(env.verify).verified

SpeakerVerified ==
    /\ VoiceVerifyAnswered
    /\ req.accepted
    /\ ~verify_speaker(env.verify).raised
    /\ verify_speaker(env.verify).verified

\* the response carries what the local model heard in the audio
CarriesTranscript ==
    /\ env.local.kind = "ok"
    /\ \/ outcome.text = Strip(env.local.raw)
       \/ outcome.command = Strip(env.local.raw)

(***************************************************************************)
(* C39 (as stated): in the voice-verify route, command processing by the   *)
(* language model is scheduled only when the speaker was verified, and the *)
(* response for an unverified speaker has status UNAUTHORIZED and never    *)
(* contains the transcript of the audio.                                   *)
(***************************************************************************)
C39_UnverifiedAnsweredUnauthorized ==
    /\ VoiceVerifyAnswered /\ outcome.scheduled => SpeakerVerified
    /\ SpeakerUnverified =>
         /\ outcome.status = "UNAUTHORIZED"
         /\ ~CarriesTranscript

(***************************************************************************)
(* C39 (amended): command processing is scheduled only when the speaker    *)
(* was verified; the response for an unverified speaker either is the 422  *)
(* error response (the transcription raised) or has status UNAUTHORIZED,   *)
(* and in both cases it never contains the transcript of the audio and no  *)
(* command is scheduled.                                                   *)
(***************************************************************************)
C39_UnverifiedNeverGetsTranscript ==
    /\ VoiceVerifyAnswered /\ outcome.scheduled => SpeakerVerified
    /\ SpeakerUnverified =>
         /\ outcome.http = 422 \/ outcome.status = "UNAUTHORIZED"
         /\ outcome.http = 422 => ~cfg.whisper_model
         /\ ~CarriesTranscript
         /\ ~outcome.scheduled

\* a speaker scored below the threshold whose audio the local model could
\* transcribe gets the fixed notice
C39_Witness ==
    /\ SpeakerUnverified
    /\ env.verify.kind = "score"
    /\ env.local.kind = "ok"
    /\ outcome.http = 200
    /\ outcome.status = "UNAUTHORIZED"
    /\ outcome.text = UNAUTHORIZED_TEXT
    /\ calls = <<"ingest", "verify", "local">>

====
